---------------------------- MODULE Spec2Model ----------------------------
(***************************************************************************)
(* Model of the histogram and cut engine of spsevb_cebra_plotter.          *)
(*                                                                         *)
(*   src/src/utils/histogram1d.rs   Histogram      (dense 1D histogram)    *)
(*   src/src/utils/histogram2d.rs   Histogram2D    (sparse 2D histogram)   *)
(*   src/src/utils/cut.rs           CutHandler     (set of polygon cuts)   *)
(*   src/src/utils/egui_polygon.rs  EditableEguiPolygon                    *)
(*   src/src/utils/histogrammer.rs  Histogrammer   (histograms by name)    *)
(*   src/src/utils/ui.rs            MyApp          (load and render)       *)
(*   src/src/histograms/sps.rs, CeBrA.rs, sps_cebra.rs   (the builders)    *)
(*                                                                         *)
(* Numbers.  The program computes on f64.  The model computes on integers  *)
(* and on quotients of integers: a coordinate is an integer, a bin width   *)
(* is the pair [num, den] standing for num/den, and every quotient the     *)
(* code takes is taken exactly and then floored or truncated as the code   *)
(* does.  Rounding of f64 is not represented.  Bin vectors are 1-based in  *)
(* the model: the code's bins[i] is bins[i + 1] here.                      *)
(*                                                                         *)
(* Option<T> is a sequence: None is << >>, Some(x) is <<x>>.               *)
(***************************************************************************)
EXTENDS Integers, Sequences, FiniteSets, TLC

VARIABLES
    hist,      \* the Histogram (1D): bins, range, bin_width
    filled,    \* history: the values passed to Histogram::add, in order; for
               \* the Histogrammer, by name, the values filled since creation
    hist2,     \* the Histogram2D: bins, ranges, bin widths, min/max count
    cutter,    \* the CutHandler: cuts, active_cut_id, draw_flag
    removed,   \* history: the ids of the cuts removed so far
    frame,     \* the table handed to filter_lf_with_cuts: column -> values
    histogrammer, \* the Histogrammer: histogram_list, selected_histograms
    app,       \* the other fields of MyApp
    last_load, \* history: the input of the last load that succeeded
    cut_file,  \* the JSON file a cut was saved to: None or Some(its text)
    saved,     \* history: the polygon whose text cut_file holds
    ret        \* the last call: its name, arguments, result, prior state

vars ==
    <<hist, filled, hist2, cutter, removed, frame, histogrammer, app, last_load,
      cut_file, saved, ret>>

(***************************************************************************)
(* Constants of the program                                                *)
(***************************************************************************)
\* The value that stands for a missing measurement (lit(-1e6)).
Sentinel == -1000000

\* u32::MAX and u32::MIN, the initial min_count and max_count.  u32::MAX is
\* 4294967295, which is above the largest integer the model checker
\* represents; the model uses that largest integer.  The value is only ever
\* compared with bin counts, which stay far below both.
U32Max == 2147483647
U32Min == 0

None == << >>
Some(x) == <<x>>

(***************************************************************************)
(* Bounds of the model                                                     *)
(***************************************************************************)
\* Number of Histogram::add calls in one behaviour.
MaxFills == 3
\* Number of Histogram2D::fill calls in one behaviour.
MaxFills2D == 3

\* Ranges and bin counts a 1D histogram is constructed with.  The second
\* range contains the sentinel.
Ranges1D == { <<0, 3>>, <<Sentinel - 1, Sentinel + 2>> }
BinCounts1D == {1, 2, 3}
\* Values given to Histogram::add.
Values1D == {-1, 0, 1, 2, 3, Sentinel}
\* Window edges given to Histogram::stats.
WindowEdges == {-2, -1, 0, 2, 3, 4}

(***************************************************************************)
(* Helpers                                                                 *)
(***************************************************************************)
RECURSIVE SumSeq(_)
SumSeq(s) == IF s = << >> THEN 0 ELSE Head(s) + SumSeq(Tail(s))

\* The quotient a / w of an integer by a bin width w = w.num / w.den,
\* floored.  Only used where w.num > 0 and w.den > 0.
FloorQuot(a, w) == (a * w.den) \div w.num

\* `q as usize` for a quotient whose floor is fq: the cast truncates
\* toward zero and saturates, so every negative quotient becomes 0.
AsUsize(fq) == IF fq < 0 THEN 0 ELSE fq

(***************************************************************************)
(* Histogram (histogram1d.rs)                                              *)
(***************************************************************************)
\* Histogram::new
NewHistogram(number_of_bins, range) ==
    [ bins      |-> [i \in 1..number_of_bins |-> 0],
      range     |-> range,
      bin_width |-> [num |-> range[2] - range[1], den |-> number_of_bins] ]

\* The index Histogram::add computes for a value.
AddIndex_rounded(h, value) ==
    AsUsize((2 * (value - h.range[1]) * h.bin_width.den + h.bin_width.num)
                \div (2 * h.bin_width.num))

AddIndex(h, value) ==
    AsUsize(FloorQuot(value - h.range[1], h.bin_width))

\* The range test of Histogram::add.
AddAccepts_noLower(h, value) ==
    value < h.range[2]

AddAccepts(h, value) ==
    value >= h.range[1] /\ value < h.range[2]

\* Histogram::add: the histogram after add(value).
HistAdd(h, value) ==
    IF AddAccepts(h, value)
    THEN LET index == AddIndex(h, value)
         IN  IF index < Len(h.bins)
             THEN [h EXCEPT !.bins[index + 1] = @ + 1]
             ELSE h
    ELSE h

\* Histogram::get_bin with the upper edge of the range excluded, as
\* Histogram::add excludes it.
GetBin_halfOpen(h, x) ==
    IF x < h.range[1] \/ x >= h.range[2]
    THEN None
    ELSE Some(AsUsize(FloorQuot(x - h.range[1], h.bin_width)))

\* Histogram::get_bin
GetBin(h, x) ==
    IF x < h.range[1] \/ x > h.range[2]
    THEN None
    ELSE Some(AsUsize(FloorQuot(x - h.range[1], h.bin_width)))

UnwrapOr(opt, default) == IF opt = None THEN default ELSE opt[1]

\* Histogram::integral_in_range_bin: the loop over start_bin..=end_bin
\* that stops at the first bin index outside the vector.
RECURSIVE IntegralLoop(_, _, _)
IntegralLoop(bins, bin, end_bin) ==
    IF bin > end_bin THEN 0
    ELSE IF bin < Len(bins)
         THEN bins[bin + 1] + IntegralLoop(bins, bin + 1, end_bin)
         ELSE 0

IntegralInRangeBin_rejecting(h, start_bin, end_bin) ==
    IF end_bin >= Len(h.bins) THEN 0
    ELSE IntegralLoop(h.bins, start_bin, end_bin)

IntegralInRangeBin(h, start_bin, end_bin) ==
    IntegralLoop(h.bins, start_bin, end_bin)

\* Histogram::integral_in_range_x
IntegralInRangeX(h, start_x, end_x) ==
    LET start_bin == UnwrapOr(GetBin(h, start_x), 0)
        end_bin   == UnwrapOr(GetBin(h, end_x), Len(h.bins) - 1)
    IN  IntegralInRangeBin(h, start_bin, end_bin)

\* Histogram::stats, its integral component.  The mean and the standard
\* deviation it also returns are real numbers computed from the same two
\* bin indices; they are not represented.
Stats(h, start_x, end_x) == IntegralInRangeX(h, start_x, end_x)

(***************************************************************************)
(* Idle values of the parts a specification does not exercise              *)
(***************************************************************************)
IdleHist == NewHistogram(1, <<0, 1>>)
IdleHist2 == [ bins |-> << >>, x_range |-> <<0, 1>>, y_range |-> <<0, 1>>,
               x_bin_width |-> [num |-> 1, den |-> 1],
               y_bin_width |-> [num |-> 1, den |-> 1],
               min_count |-> U32Max, max_count |-> U32Min ]
IdleCutter == [ cuts |-> << >>, active_cut_id |-> None, draw_flag |-> TRUE ]
IdleFrame == << >>
IdleHistogrammer == [ histogram_list |-> << >>, selected_histograms |-> << >> ]
IdleApp == [ selected_directory |-> None, file_paths |-> << >>,
             selected_option |-> "SPS", cebr3_detectors |-> << >>,
             sps_cebr3_detectors |-> << >>, histograms_loaded |-> FALSE ]
NoCall == [ op |-> "none" ]

(***************************************************************************)
(* Specification of the 1D histogram                                       *)
(***************************************************************************)
InitHist1D ==
    /\ \E n \in BinCounts1D, r \in Ranges1D : hist = NewHistogram(n, r)
    /\ filled = << >>
    /\ hist2 = IdleHist2
    /\ cutter = IdleCutter
    /\ removed = {}
    /\ frame = IdleFrame
    /\ histogrammer = IdleHistogrammer
    /\ app = IdleApp
    /\ last_load = None /\ cut_file = None /\ saved = None
    /\ ret = NoCall

\* A call of Histogram::add(value).
Add(value) ==
    /\ Len(filled) < MaxFills
    /\ hist' = HistAdd(hist, value)
    /\ filled' = Append(filled, value)
    /\ ret' = [ op |-> "add", value |-> value, old |-> hist ]
    /\ UNCHANGED <<cut_file, saved, last_load, histogrammer, app, hist2, cutter, removed, frame>>

\* A call of Histogram::stats(start_x, end_x).
CallStats(start_x, end_x) ==
    /\ ret' = [ op |-> "stats", start_x |-> start_x, end_x |-> end_x,
                integral |-> Stats(hist, start_x, end_x) ]
    /\ UNCHANGED <<cut_file, saved, last_load, histogrammer, app, hist, filled, hist2, cutter, removed, frame>>

\* A call of Histogram::get_bin(x).
CallGetBin(x) ==
    /\ ret' = [ op |-> "get_bin", x |-> x, result |-> GetBin(hist, x) ]
    /\ UNCHANGED <<cut_file, saved, last_load, histogrammer, app, hist, filled, hist2, cutter,
                   removed, frame>>

NextHist1D ==
    \/ \E value \in Values1D : Add(value)
    \/ \E x \in WindowEdges : CallGetBin(x)
    \/ \E start_x \in WindowEdges, end_x \in WindowEdges :
           CallStats(start_x, end_x)

SpecHist1D == InitHist1D /\ [][NextHist1D]_vars

(***************************************************************************)
(* Properties of the 1D histogram                                          *)
(***************************************************************************)
\* Bin k of histogram h is the half-open interval
\* [lo + k * w, lo + (k + 1) * w) with w = (hi - lo) / n; the comparisons
\* below are those of the interval's edges multiplied by n.
BinHolds(h, k, v) ==
    LET lo == h.range[1]
        hi == h.range[2]
        n  == Len(h.bins)
    IN  /\ lo * n + k * (hi - lo) <= v * n
        /\ v * n < lo * n + (k + 1) * (hi - lo)

\* Bin k of h and the closed window [ws, we] have a point in common.
BinOverlaps(h, k, ws, we) ==
    LET lo == h.range[1]
        hi == h.range[2]
        n  == Len(h.bins)
    IN  /\ ws <= we
        /\ lo * n + k * (hi - lo) <= we * n
        /\ ws * n < lo * n + (k + 1) * (hi - lo)

InRangeCount(h, values) ==
    Cardinality({ i \in 1..Len(values) :
                    h.range[1] <= values[i] /\ values[i] < h.range[2] })

HasSentinel(values) == \E i \in 1..Len(values) : values[i] = Sentinel

OverlapSum(h, ws, we) ==
    SumSeq([ i \in 1..Len(h.bins) |->
               IF BinOverlaps(h, i - 1, ws, we) THEN h.bins[i] ELSE 0 ])

\* C5: the count returned by stats(window_start, window_end) is the sum of
\* the counts of exactly the bins that overlap the window, so a window
\* that overlaps no bin yields 0.
C5_WindowedCount ==
    (ret.op = "stats" /\ ret.start_x <= ret.end_x) =>
        ret.integral = OverlapSum(hist, ret.start_x, ret.end_x)

\* C6: in every state reachable by fills, the integral over the full range
\* (range.0, range.1) equals the sum of all bin counts.
C6_FullRangeIntegral ==
    Stats(hist, hist.range[1], hist.range[2]) = SumSeq(hist.bins)

\* stats has been called on the full range of a histogram whose last bin
\* is populated.
C6_Witness ==
    /\ ret.op = "stats"
    /\ ret.start_x = hist.range[1]
    /\ ret.end_x = hist.range[2]
    /\ Len(hist.bins) = 3
    /\ hist.bins[3] >= 1
    /\ hist.bins[1] >= 1
    /\ ret.integral = SumSeq(hist.bins)

\* C10: Histogram::add with the sentinel value changes no bin count,
\* whatever the range of the histogram.
C10_SentinelDropped ==
    (ret.op = "add" /\ ret.value = Sentinel) => hist.bins = ret.old.bins

\* C19: get_bin(x) is None exactly when x < range.0 or x > range.1, and
\* is Some(bin) for every x with range.0 <= x <= range.1: also for
\* x = range.1, the upper edge, which add rejects.
C19_GetBinInclusiveUpperEdge ==
    ret.op = "get_bin" =>
        /\ ret.result = None <=> (ret.x < hist.range[1] \/ ret.x > hist.range[2])
        /\ (hist.range[1] <= ret.x /\ ret.x <= hist.range[2]) =>
               \E bin \in 0..Len(hist.bins) : ret.result = Some(bin)
        /\ ret.x = hist.range[2] =>
               (ret.result # None /\ ~AddAccepts(hist, ret.x))

\* get_bin(range.1) on a histogram to which add(range.1) was called
\* before and counted nothing.
C19_Witness ==
    /\ ret.op = "get_bin"
    /\ ret.x = hist.range[2]
    /\ ret.result = Some(Len(hist.bins))
    /\ filled = <<ret.x>>
    /\ SumSeq(hist.bins) = 0

(***************************************************************************)
(* Histogram2D (histogram2d.rs)                                            *)
(***************************************************************************)
\* Axis configurations a 2D histogram is constructed with, and the
\* coordinates given to Histogram2D::fill.  The x axis has bins of width
\* 3 or 3/2, the y axis bins of width 2 or 1.
XRanges2D == { <<0, 3>> }
XBinCounts2D == {1, 2}
YRanges2D == { <<0, 2>> }
YBinCounts2D == {1, 2}
XValues2D == {-1, 0, 2, 3}
YValues2D == {0, 1, 2}

\* Histogram2D::new
NewHistogram2D(x_bins, x_range, y_bins, y_range) ==
    [ bins        |-> << >>,
      x_range     |-> x_range,
      y_range     |-> y_range,
      x_bin_width |-> [num |-> x_range[2] - x_range[1], den |-> x_bins],
      y_bin_width |-> [num |-> y_range[2] - y_range[1], den |-> y_bins],
      min_count   |-> U32Max,
      max_count   |-> U32Min ]

\* The range test of Histogram2D::fill.
FillAccepts_closedY(h, x_value, y_value) ==
    /\ x_value >= h.x_range[1] /\ x_value < h.x_range[2]
    /\ y_value >= h.y_range[1] /\ y_value <= h.y_range[2]

FillAccepts(h, x_value, y_value) ==
    /\ x_value >= h.x_range[1] /\ x_value < h.x_range[2]
    /\ y_value >= h.y_range[1] /\ y_value < h.y_range[2]

\* The count stored for a key of the sparse map; an absent key counts 0.
CountAt(bins, key) == IF key \in DOMAIN bins THEN bins[key] ELSE 0

\* The update of min_count in Histogram2D::fill.
MinUpdate(count, min_count) ==
    IF count < min_count THEN count ELSE min_count

\* The update of max_count in Histogram2D::fill.
MaxUpdate_swapped(count, max_count) ==
    IF count < max_count THEN count ELSE max_count

MaxUpdate(count, max_count) ==
    IF count > max_count THEN count ELSE max_count

\* Histogram2D::fill: the histogram after fill(x_value, y_value).
Hist2Fill(h, x_value, y_value) ==
    IF FillAccepts(h, x_value, y_value)
    THEN LET x_index == AsUsize(FloorQuot(x_value - h.x_range[1], h.x_bin_width))
             y_index == AsUsize(FloorQuot(y_value - h.y_range[1], h.y_bin_width))
             key     == <<x_index, y_index>>
             count   == CountAt(h.bins, key) + 1
         IN  [ h EXCEPT !.bins = [ k \in (DOMAIN h.bins) \cup {key} |->
                                     IF k = key THEN count ELSE h.bins[k] ],
                        !.min_count = MinUpdate(count, h.min_count),
                        !.max_count = MaxUpdate(count, h.max_count) ]
    ELSE h

\* The number of samples a 2D histogram holds.
RECURSIVE SumCounts(_, _)
SumCounts(bins, keys) ==
    IF keys = {} THEN 0
    ELSE LET k == CHOOSE k \in keys : TRUE
         IN  bins[k] + SumCounts(bins, keys \ {k})

(***************************************************************************)
(* Specification of the 2D histogram                                       *)
(***************************************************************************)
InitHist2D ==
    /\ \E x_bins \in XBinCounts2D, x_range \in XRanges2D,
          y_bins \in YBinCounts2D, y_range \in YRanges2D :
           hist2 = NewHistogram2D(x_bins, x_range, y_bins, y_range)
    /\ hist = IdleHist
    /\ filled = << >>
    /\ cutter = IdleCutter
    /\ removed = {}
    /\ frame = IdleFrame
    /\ histogrammer = IdleHistogrammer
    /\ app = IdleApp
    /\ last_load = None /\ cut_file = None /\ saved = None
    /\ ret = NoCall

\* A call of Histogram2D::fill(x_value, y_value).
Fill(x_value, y_value) ==
    /\ SumCounts(hist2.bins, DOMAIN hist2.bins) < MaxFills2D
    /\ hist2' = Hist2Fill(hist2, x_value, y_value)
    /\ ret' = [ op |-> "fill", x_value |-> x_value, y_value |-> y_value,
                old |-> hist2 ]
    /\ UNCHANGED <<cut_file, saved, last_load, histogrammer, app, hist, filled, cutter, removed, frame>>

NextHist2D ==
    \E x_value \in XValues2D, y_value \in YValues2D : Fill(x_value, y_value)

SpecHist2D == InitHist2D /\ [][NextHist2D]_vars

(***************************************************************************)
(* Properties of the 2D histogram                                          *)
(***************************************************************************)
Counts(h) == { h.bins[k] : k \in DOMAIN h.bins }

\* C7: once a sample has been accepted, min_count is the smallest count
\* stored in any populated bin.
C7_MinCount ==
    DOMAIN hist2.bins # {} =>
        /\ hist2.min_count \in Counts(hist2)
        /\ \A c \in Counts(hist2) : hist2.min_count <= c

\* C8: max_count is 0 while no sample has been accepted, and afterwards
\* the largest count stored in any populated bin.
C8_MaxCount ==
    IF DOMAIN hist2.bins = {}
    THEN hist2.max_count = 0
    ELSE /\ hist2.max_count \in Counts(hist2)
         /\ \A c \in Counts(hist2) : c <= hist2.max_count

\* Two bins are populated with different counts and the last fill went to
\* the bin with the smaller count.
C8_Witness ==
    /\ ret.op = "fill"
    /\ Cardinality(DOMAIN hist2.bins) >= 2
    /\ hist2.max_count >= 2
    /\ \E k \in DOMAIN hist2.bins :
           /\ hist2.bins[k] < hist2.max_count
           /\ hist2.bins[k] = CountAt(ret.old.bins, k) + 1

\* The cell (kx, ky) of h is the product of the half-open intervals
\* [x_min + kx * wx, x_min + (kx + 1) * wx) and
\* [y_min + ky * wy, y_min + (ky + 1) * wy).
CellHolds(h, kx, ky, x, y) ==
    LET xn == h.x_bin_width.den
        xw == h.x_bin_width.num
        yn == h.y_bin_width.den
        yw == h.y_bin_width.num
    IN  /\ h.x_range[1] * xn + kx * xw <= x * xn
        /\ x * xn < h.x_range[1] * xn + (kx + 1) * xw
        /\ h.y_range[1] * yn + ky * yw <= y * yn
        /\ y * yn < h.y_range[1] * yn + (ky + 1) * yw

\* C9: fill(x, y) increments exactly one sparse entry, the one keyed by the
\* cell that holds (x, y), iff x_min <= x < x_max and y_min <= y < y_max;
\* otherwise bins, min_count and max_count are unchanged.
C9_Fill2DBinRule ==
    ret.op = "fill" =>
        LET x   == ret.x_value
            y   == ret.y_value
            old == ret.old
        IN  IF /\ old.x_range[1] <= x /\ x < old.x_range[2]
               /\ old.y_range[1] <= y /\ y < old.y_range[2]
            THEN \E kx \in 0..(old.x_bin_width.den - 1),
                    ky \in 0..(old.y_bin_width.den - 1) :
                     /\ CellHolds(old, kx, ky, x, y)
                     /\ DOMAIN hist2.bins = (DOMAIN old.bins) \cup {<<kx, ky>>}
                     /\ \A k \in DOMAIN hist2.bins :
                            hist2.bins[k] =
                                CountAt(old.bins, k)
                                    + (IF k = <<kx, ky>> THEN 1 ELSE 0)
            ELSE /\ hist2.bins = old.bins
                 /\ hist2.min_count = old.min_count
                 /\ hist2.max_count = old.max_count

\* A sample has been counted in the cell (1, 1) of a grid whose x bins
\* have width 3/2, in a histogram that already held a sample.
C9_Witness ==
    /\ ret.op = "fill"
    /\ ret.x_value = 2 /\ ret.y_value = 1
    /\ ret.old.x_bin_width.den = 2 /\ ret.old.y_bin_width.den = 2
    /\ CountAt(hist2.bins, <<1, 1>>) = CountAt(ret.old.bins, <<1, 1>>) + 1
    /\ DOMAIN ret.old.bins # {}

(***************************************************************************)
(* EditableEguiPolygon (egui_polygon.rs) and CutHandler (cut.rs)           *)
(***************************************************************************)
\* Number of cuts the set holds at once.
MaxCuts == 2
\* Number of vertices of one polygon in the cut editor.
MaxVertices == 2
\* Pointer positions of a click in the plot.
PointerPositions == { <<0, 0>>, <<3, 0>>, <<0, 4>> }

\* format!("cut_{}", n): the id is the text "cut_" followed by n.
CutId(n) == "cut_" \o ToString(n)

\* EditableEguiPolygon::new
NewPolygon ==
    [ vertices              |-> << >>,
      selected_vertex_index |-> None,
      selected_x_column     |-> None,
      selected_y_column     |-> None ]

\* add_new_vertex putting the vertex at the front of the list.
AddNewVertex_front(poly, coordinates) ==
    [poly EXCEPT !.vertices = <<coordinates>> \o @]

\* EditableEguiPolygon::add_new_vertex
AddNewVertex(poly, coordinates) ==
    [poly EXCEPT !.vertices = Append(@, coordinates)]

\* Vec::remove(index), index 0-based.
VecRemove(s, index) ==
    [ i \in 1..(Len(s) - 1) |-> IF i <= index THEN s[i] ELSE s[i + 1] ]

\* EditableEguiPolygon::clear_selection
ClearSelection(poly) == [poly EXCEPT !.selected_vertex_index = None]

\* EditableEguiPolygon::remove_vertex
RemoveVertex(poly) ==
    IF poly.selected_vertex_index # None
    THEN ClearSelection(
             [poly EXCEPT !.vertices = VecRemove(@, poly.selected_vertex_index[1])])
    ELSE poly

\* The squared distance get_closest_vertex_index compares.
Distance(vertex, pointer_pos) ==
    (vertex[1] - pointer_pos[1]) * (vertex[1] - pointer_pos[1])
        + (vertex[2] - pointer_pos[2]) * (vertex[2] - pointer_pos[2])

\* The loop of get_closest_vertex_index from vertex `index` (0-based) on,
\* with the closest index and distance found so far.
RECURSIVE ClosestLoop(_, _, _, _, _)
ClosestLoop(vertices, pointer_pos, index, closest_vertex_index, closest_distance) ==
    IF index >= Len(vertices) THEN closest_vertex_index
    ELSE LET distance == Distance(vertices[index + 1], pointer_pos)
         IN  IF closest_vertex_index = None \/ distance < closest_distance
             THEN ClosestLoop(vertices, pointer_pos, index + 1, Some(index), distance)
             ELSE ClosestLoop(vertices, pointer_pos, index + 1,
                              closest_vertex_index, closest_distance)

\* EditableEguiPolygon::get_closest_vertex_index
GetClosestVertexIndex(poly, pointer_pos) ==
    ClosestLoop(poly.vertices, pointer_pos, 0, None, 0)

\* remove_all_vertices replacing the polygon by a new one.
RemoveAllVertices_reset(poly) ==
    NewPolygon

\* EditableEguiPolygon::remove_all_vertices
RemoveAllVertices(poly) ==
    ClearSelection([poly EXCEPT !.vertices = << >>])

\* CutHandler::new
NewCutHandler ==
    [ cuts |-> << >>, active_cut_id |-> None, draw_flag |-> TRUE ]

\* HashMap::insert: the entry of the key is set, whether or not the key
\* was present.
MapInsert(map, key, value) ==
    [ k \in (DOMAIN map) \cup {key} |-> IF k = key THEN value ELSE map[k] ]

\* HashMap::remove, leaving the entry of the key in the map.
MapRemove_keep(map, key) ==
    map

\* HashMap::remove
MapRemove(map, key) ==
    [ k \in (DOMAIN map) \ {key} |-> map[k] ]

\* CutHandler::add_new_cut, keeping the cut the id already names.
AddNewCut_keep(c) ==
    LET new_id == CutId(Cardinality(DOMAIN c.cuts) + 1)
    IN  [c EXCEPT !.cuts = IF new_id \in DOMAIN @ THEN @
                           ELSE MapInsert(@, new_id, NewPolygon),
                  !.active_cut_id = Some(new_id)]

\* CutHandler::add_new_cut
AddNewCut(c) ==
    LET new_id == CutId(Cardinality(DOMAIN c.cuts) + 1)
    IN  [c EXCEPT !.cuts = MapInsert(@, new_id, NewPolygon),
                  !.active_cut_id = Some(new_id)]

(***************************************************************************)
(* Specification of the cut handler: the buttons and the chooser of        *)
(* cut_handler_ui and the mouse handling of draw_active_cut                *)
(***************************************************************************)
InitCuts ==
    /\ cutter = NewCutHandler
    /\ removed = {}
    /\ hist = IdleHist
    /\ filled = << >>
    /\ hist2 = IdleHist2
    /\ frame = IdleFrame
    /\ histogrammer = IdleHistogrammer
    /\ app = IdleApp
    /\ last_load = None /\ cut_file = None /\ saved = None
    /\ ret = NoCall

\* The "New" button.
ClickNew ==
    /\ Cardinality(DOMAIN cutter.cuts) < MaxCuts
    /\ cutter' = AddNewCut(cutter)
    /\ ret' = [ op |-> "add_new_cut", old |-> cutter,
                new_id |-> CutId(Cardinality(DOMAIN cutter.cuts) + 1) ]
    /\ UNCHANGED <<cut_file, saved, last_load, histogrammer, app, removed, hist, filled, hist2, frame>>

\* The "Remove Active Cut" button leaving the active id as it is.
ClickRemoveActiveCut_keepActive ==
    /\ cutter.active_cut_id # None
    /\ LET active_id == cutter.active_cut_id[1]
       IN  /\ cutter' = [cutter EXCEPT !.cuts = MapRemove(@, active_id)]
           /\ removed' = IF active_id \in DOMAIN cutter.cuts
                         THEN removed \cup {active_id}
                         ELSE removed
           /\ ret' = [ op |-> "remove", old |-> cutter, id |-> active_id ]
    /\ UNCHANGED <<cut_file, saved, last_load, histogrammer, app, hist, filled, hist2, frame>>

\* The "Remove Active Cut" button, shown while a cut is active.
ClickRemoveActiveCut ==
    /\ cutter.active_cut_id # None
    /\ LET active_id == cutter.active_cut_id[1]
       IN  /\ cutter' = [cutter EXCEPT !.cuts = MapRemove(@, active_id),
                                       !.active_cut_id = None]
           /\ removed' = IF active_id \in DOMAIN cutter.cuts
                         THEN removed \cup {active_id}
                         ELSE removed
           /\ ret' = [ op |-> "remove", old |-> cutter, id |-> active_id ]
    /\ UNCHANGED <<cut_file, saved, last_load, histogrammer, app, hist, filled, hist2, frame>>

\* The "Active Cut" chooser, shown while the set is not empty: "None" or
\* the id of one of the cuts.
SelectActiveCut(choice) ==
    /\ DOMAIN cutter.cuts # {}
    /\ choice = None \/ (choice # None /\ choice[1] \in DOMAIN cutter.cuts)
    /\ cutter' = [cutter EXCEPT !.active_cut_id = choice]
    /\ ret' = [ op |-> "select", old |-> cutter, choice |-> choice ]
    /\ UNCHANGED <<cut_file, saved, last_load, histogrammer, app, removed, hist, filled, hist2, frame>>

\* The "Draw" checkbox, shown while a cut is active.
ToggleDraw ==
    /\ cutter.active_cut_id # None
    /\ cutter' = [cutter EXCEPT !.draw_flag = ~@]
    /\ ret' = [ op |-> "draw_flag", old |-> cutter ]
    /\ UNCHANGED <<cut_file, saved, last_load, histogrammer, app, removed, hist, filled, hist2, frame>>

\* CutHandler::draw_active_cut reaches the polygon of the active cut.
ActiveCutDrawn ==
    /\ cutter.draw_flag
    /\ cutter.active_cut_id # None
    /\ cutter.active_cut_id[1] \in DOMAIN cutter.cuts

\* handle_mouse_interactions, response.clicked()
Clicked(pointer_pos) ==
    /\ ActiveCutDrawn
    /\ LET id == cutter.active_cut_id[1]
       IN  /\ Len(cutter.cuts[id].vertices) < MaxVertices
           /\ cutter' = [cutter EXCEPT !.cuts[id] = AddNewVertex(@, pointer_pos)]
    /\ ret' = [ op |-> "clicked", old |-> cutter, pointer_pos |-> pointer_pos ]
    /\ UNCHANGED <<cut_file, saved, last_load, histogrammer, app, removed, hist, filled, hist2, frame>>

\* handle_mouse_interactions, response.secondary_clicked()
SecondaryClicked(pointer_pos) ==
    /\ ActiveCutDrawn
    /\ LET id       == cutter.active_cut_id[1]
           poly     == cutter.cuts[id]
           selected == [poly EXCEPT !.selected_vertex_index =
                            GetClosestVertexIndex(poly, pointer_pos)]
       IN  cutter' = [cutter EXCEPT !.cuts[id] = RemoveVertex(selected)]
    /\ ret' = [ op |-> "secondary_clicked", old |-> cutter,
                pointer_pos |-> pointer_pos ]
    /\ UNCHANGED <<cut_file, saved, last_load, histogrammer, app, removed, hist, filled, hist2, frame>>

\* handle_mouse_interactions, response.middle_clicked()
MiddleClicked ==
    /\ ActiveCutDrawn
    /\ LET id == cutter.active_cut_id[1]
       IN  cutter' = [cutter EXCEPT !.cuts[id] = RemoveAllVertices(@)]
    /\ ret' = [ op |-> "middle_clicked", old |-> cutter ]
    /\ UNCHANGED <<cut_file, saved, last_load, histogrammer, app, removed, hist, filled, hist2, frame>>

NextCuts ==
    \/ ClickNew
    \/ ClickRemoveActiveCut
    \/ \E n \in 1..MaxCuts : SelectActiveCut(Some(CutId(n)))
    \/ SelectActiveCut(None)
    \/ ToggleDraw
    \/ \E pointer_pos \in PointerPositions : Clicked(pointer_pos)
    \/ \E pointer_pos \in PointerPositions : SecondaryClicked(pointer_pos)
    \/ MiddleClicked

SpecCuts == InitCuts /\ [][NextCuts]_vars

(***************************************************************************)
(* Properties of the cut handler                                           *)
(***************************************************************************)
\* C4: the id given to a newly added cut differs from the id of every cut
\* in the set at that time and from the id of every cut removed earlier.
C4_IdsNeverReused ==
    ret.op = "add_new_cut" =>
        /\ ret.new_id \notin DOMAIN ret.old.cuts
        /\ ret.new_id \notin removed

(***************************************************************************)
(* Point containment and CutHandler::filter_lf_with_cuts                   *)
(***************************************************************************)
\* to_geo_polygon with the exterior ring left as the vertices are, not
\* closed.
ToGeoPolygon_open(vertices) ==
    vertices

\* EditableEguiPolygon::to_geo_polygon: the exterior ring of the vertices,
\* closed by Polygon::new when its last coordinate is not its first.
ToGeoPolygon(vertices) ==
    IF vertices = << >> THEN << >>
    ELSE IF vertices[1] = vertices[Len(vertices)] THEN vertices
         ELSE Append(vertices, vertices[1])

\* Twice the signed area of the triangle (a, b, p): positive when p lies
\* to the left of the edge from a to b.
Orient(a, b, p) ==
    (b[1] - a[1]) * (p[2] - a[2]) - (p[1] - a[1]) * (b[2] - a[2])

Between(v, s, t) == (s <= v /\ v <= t) \/ (t <= v /\ v <= s)

\* p lies on the closed segment from a to b.
OnSegment(a, b, p) ==
    /\ Orient(a, b, p) = 0
    /\ Between(p[1], a[1], b[1])
    /\ Between(p[2], a[2], b[2])

\* The contribution of the edge from a to b to the winding number of the
\* ring around p: +1 for an upward edge with p strictly to its left, -1
\* for a downward edge with p strictly to its right.
EdgeWinding(a, b, p) ==
    IF a[2] <= p[2] /\ b[2] > p[2] /\ Orient(a, b, p) > 0 THEN 1
    ELSE IF a[2] > p[2] /\ b[2] <= p[2] /\ Orient(a, b, p) < 0 THEN -1
    ELSE 0

\* Polygon::contains(&Point): p is in the interior of the ring, which
\* excludes the boundary.
GeoContains(ring, p) ==
    /\ Len(ring) >= 2
    /\ ~\E i \in 1..(Len(ring) - 1) : OnSegment(ring[i], ring[i + 1], p)
    /\ SumSeq([ i \in 1..(Len(ring) - 1) |->
                  EdgeWinding(ring[i], ring[i + 1], p) ]) # 0

\* EditableEguiPolygon::is_inside
IsInside(poly, x, y) == GeoContains(ToGeoPolygon(poly.vertices), <<x, y>>)

\* The ids of the cuts that have both columns selected.
BoundCuts(cuts) ==
    { id \in DOMAIN cuts : /\ cuts[id].selected_x_column # None
                           /\ cuts[id].selected_y_column # None }

\* The number of rows of a frame whose columns all have the same length.
Height(f) ==
    IF DOMAIN f = {} THEN 0 ELSE Len(f[CHOOSE c \in DOMAIN f : TRUE])

\* The mask of one cut: one entry per row, cut.is_inside of the values of
\* the cut's two columns in that row.
CutMask(f, cut) ==
    [ i \in 1..Height(f) |->
        IsInside(cut, f[cut.selected_x_column[1]][i],
                      f[cut.selected_y_column[1]][i]) ]

\* The order in which the iteration over the HashMap yields the bound
\* cuts: every mask has the same length and the masks are combined by a
\* commutative operation, so one order stands for all.
RECURSIVE MasksOf(_, _, _)
MasksOf(f, cuts, ids) ==
    IF ids = {} THEN << >>
    ELSE LET id == CHOOSE id \in ids : TRUE
         IN  <<CutMask(f, cuts[id])>> \o MasksOf(f, cuts, ids \ {id})

\* combined_mask[i] = combined_mask[i] || value
CombineBit_and(combined, value) == combined /\ value

CombineBit(combined, value) == combined \/ value

\* The combination of the masks into combined_mask, which starts all
\* false with the length of the first mask (0 when there is no mask).
RECURSIVE CombineLoop(_, _)
CombineLoop(combined_mask, masks) ==
    IF masks = << >> THEN combined_mask
    ELSE CombineLoop(
             [ i \in 1..Len(combined_mask) |->
                 IF i <= Len(Head(masks))
                 THEN CombineBit(combined_mask[i], Head(masks)[i])
                 ELSE combined_mask[i] ],
             Tail(masks))

CombinedMask(masks) ==
    LET dataset_len == IF masks = << >> THEN 0 ELSE Len(masks[1])
    IN  CombineLoop([ i \in 1..dataset_len |-> FALSE ], masks)

\* The increasing sequence of the row numbers a mask selects.
RECURSIVE SelectedRows(_, _)
SelectedRows(mask, i) ==
    IF i > Len(mask) THEN << >>
    ELSE (IF mask[i] THEN <<i>> ELSE << >>) \o SelectedRows(mask, i + 1)

\* DataFrame::filter(&mask): a mask of length 1 is broadcast, a mask of
\* any other length than the height of the frame is a ShapeMismatch
\* error, and otherwise the rows whose mask entry is true are kept.
DataFrameFilter(f, mask) ==
    IF Len(mask) = 1
    THEN [ status |-> "ok",
           rows   |-> IF mask[1] THEN [ i \in 1..Height(f) |-> i ] ELSE << >> ]
    ELSE IF Len(mask) # Height(f)
         THEN [ status |-> "err", rows |-> << >> ]
         ELSE [ status |-> "ok", rows |-> SelectedRows(mask, 1) ]

\* CutHandler::filter_lf_with_cuts: the combined mask and the result, the
\* kept rows of the frame by number.  Collecting a column the frame does
\* not have is an error.  The frame `_filtered_lf` built in the first loop
\* is dropped; the frame the masks are made from is the unfiltered one.
FilterLfWithCuts(c, f) ==
    LET bound == BoundCuts(c.cuts)
    IN  IF \E id \in bound :
               \/ c.cuts[id].selected_x_column[1] \notin DOMAIN f
               \/ c.cuts[id].selected_y_column[1] \notin DOMAIN f
        THEN [ status |-> "err", combined_mask |-> << >>, rows |-> << >> ]
        ELSE LET combined_mask == CombinedMask(MasksOf(f, c.cuts, bound))
                 filtered      == DataFrameFilter(f, combined_mask)
             IN  [ status        |-> filtered.status,
                   combined_mask |-> combined_mask,
                   rows          |-> filtered.rows ]

(***************************************************************************)
(* Specification of the filtering: a cut set and a frame, then the call    *)
(***************************************************************************)
\* Number of rows of the frame.
MaxRows == 2
\* The columns of the frame and the values of their cells: each column
\* has an ordinary value and the sentinel the event builder writes for a
\* missing value.
FrameColumns == {"X1", "X2"}
CellValues(column) == IF column = "X1" THEN {5, Sentinel} ELSE {1, Sentinel}
\* The pairs (selected_x_column, selected_y_column) of a cut: x unbound,
\* bound to (X1, X2), bound to (X2, X1), and bound to a column "X3" the
\* frame does not have.
ColumnChoices ==
    { <<None, Some("X2")>>, <<Some("X1"), Some("X2")>>,
      <<Some("X2"), Some("X1")>>, <<Some("X1"), Some("X3")>> }
\* The vertex lists of the cuts: two vertices only, the rectangle with the
\* corners (0,0) and (6,2), and the square of side 2 drawn around the point
\* (Sentinel, Sentinel).
VertexLists ==
    { << <<0, 0>>, <<4, 4>> >>,
      << <<0, 0>>, <<6, 0>>, <<6, 2>>, <<0, 2>> >>,
      << <<Sentinel - 1, Sentinel - 1>>, <<Sentinel + 1, Sentinel - 1>>,
         <<Sentinel + 1, Sentinel + 1>>, <<Sentinel - 1, Sentinel + 1>> >> }

CutChoices ==
    { [ vertices              |-> v,
        selected_vertex_index |-> None,
        selected_x_column     |-> xy[1],
        selected_y_column     |-> xy[2] ] :
      v \in VertexLists, xy \in ColumnChoices }

InitFilter ==
    /\ \E ids \in SUBSET { CutId(n) : n \in 1..MaxCuts } :
          \E cuts \in [ids -> CutChoices] :
              cutter = [ cuts |-> cuts, active_cut_id |-> None,
                         draw_flag |-> TRUE ]
    /\ \E rows \in 0..MaxRows :
          /\ frame \in [ FrameColumns ->
                            [1..rows -> UNION { CellValues(c) : c \in FrameColumns }] ]
          /\ \A c \in FrameColumns : \A i \in 1..rows : frame[c][i] \in CellValues(c)
    /\ removed = {}
    /\ hist = IdleHist
    /\ filled = << >>
    /\ hist2 = IdleHist2
    /\ histogrammer = IdleHistogrammer
    /\ app = IdleApp
    /\ last_load = None /\ cut_file = None /\ saved = None
    /\ ret = NoCall

\* A call of filter_lf_with_cuts on the frame.
CallFilterLfWithCuts ==
    /\ ret' = [ op |-> "filter_lf_with_cuts" ] @@ FilterLfWithCuts(cutter, frame)
    /\ UNCHANGED <<cut_file, saved, last_load, histogrammer, app, cutter, removed, frame, hist, filled, hist2>>

NextFilter == CallFilterLfWithCuts

SpecFilter == InitFilter /\ [][NextFilter]_vars

(***************************************************************************)
(* Properties of the filtering                                             *)
(***************************************************************************)
\* The combined mask bit of row i: true when the mask has an entry for the
\* row and the entry is true.
MaskBit(mask, i) == i <= Len(mask) /\ mask[i]

\* Cut `cut` of the set contains the point of row i read from the cut's
\* own columns.
CutSelectsRow(cut, f, i) ==
    IsInside(cut, f[cut.selected_x_column[1]][i], f[cut.selected_y_column[1]][i])

\* C3: for every row i the combined mask bit is true iff at least one cut
\* that has both columns bound contains the point (x[i], y[i]) read from
\* that cut's own columns; cuts with an unbound column contribute nothing.
C3_MaskIsUnion ==
    (ret.op = "filter_lf_with_cuts" /\ ret.status = "ok") =>
        \A i \in 1..Height(frame) :
            MaskBit(ret.combined_mask, i) <=>
                \E id \in BoundCuts(cutter.cuts) :
                    CutSelectsRow(cutter.cuts[id], frame, i)

\* Two bound cuts, a row selected by exactly one of them, and a row
\* selected by neither.
C3_Witness ==
    /\ ret.op = "filter_lf_with_cuts" /\ ret.status = "ok"
    /\ Height(frame) = 2
    /\ Cardinality(BoundCuts(cutter.cuts)) = 2
    /\ \E i \in 1..2 :
           /\ ret.combined_mask[i]
           /\ \E a, b \in BoundCuts(cutter.cuts) :
                  /\ CutSelectsRow(cutter.cuts[a], frame, i)
                  /\ ~CutSelectsRow(cutter.cuts[b], frame, i)
    /\ \E i \in 1..2 : ~ret.combined_mask[i]

\* Row i of the frame holds the sentinel in one of the two columns of the
\* cut.
SentinelRow(cut, f, i) ==
    \/ f[cut.selected_x_column[1]][i] = Sentinel
    \/ f[cut.selected_y_column[1]][i] = Sentinel

\* C11: a row whose x or y value, in the columns of a bound cut, is the
\* sentinel -1e6 never has its bit set in the mask of that cut, and so is
\* never selected on account of that cut, whatever the polygon.
C11_SentinelNeverSelected ==
    (ret.op = "filter_lf_with_cuts" /\ ret.status = "ok") =>
        \A id \in BoundCuts(cutter.cuts) :
            \A i \in 1..Height(frame) :
                SentinelRow(cutter.cuts[id], frame, i) =>
                    /\ ~CutMask(frame, cutter.cuts[id])[i]
                    /\ (BoundCuts(cutter.cuts) = {id} =>
                            ~MaskBit(ret.combined_mask, i))

\* C12: when no cut of the set has both columns bound (the set may be
\* empty) the combined mask has one entry per row of the frame, every entry
\* is false, and the filtering succeeds with zero rows.
C12_NoBoundCutsSelectsNothing ==
    (ret.op = "filter_lf_with_cuts" /\ BoundCuts(cutter.cuts) = {}) =>
        /\ Len(ret.combined_mask) = Height(frame)
        /\ \A i \in 1..Len(ret.combined_mask) : ~ret.combined_mask[i]
        /\ ret.status = "ok"
        /\ ret.rows = << >>

(***************************************************************************)
(* Specification of the constructors Histogram::new and Histogram2D::new   *)
(***************************************************************************)
\* The arguments of the constructors: bin counts from zero on, and ranges
\* that are proper, inverted and empty.
NewBinCounts == {0, 1, 2}
NewRanges == { <<0, 3>>, <<3, 0>>, <<1, 1>> }

InitNew ==
    /\ hist = IdleHist
    /\ hist2 = IdleHist2
    /\ filled = << >>
    /\ cutter = IdleCutter
    /\ removed = {}
    /\ frame = IdleFrame
    /\ histogrammer = IdleHistogrammer
    /\ app = IdleApp
    /\ last_load = None /\ cut_file = None /\ saved = None
    /\ ret = NoCall

\* A call of Histogram::new(number_of_bins, range).  The constructor
\* returns Self: it has no failing outcome and tests none of its arguments.
New(number_of_bins, range) ==
    /\ hist' = NewHistogram(number_of_bins, range)
    /\ ret' = [ op |-> "Histogram::new", status |-> "ok",
                bins |-> <<number_of_bins>>, ranges |-> <<range>> ]
    /\ UNCHANGED <<cut_file, saved, last_load, histogrammer, app, hist2, filled, cutter, removed, frame>>

\* A call of Histogram2D::new(x_bins, x_range, y_bins, y_range), which
\* returns Self as well.
New2D(x_bins, x_range, y_bins, y_range) ==
    /\ hist2' = NewHistogram2D(x_bins, x_range, y_bins, y_range)
    /\ ret' = [ op |-> "Histogram2D::new", status |-> "ok",
                bins |-> <<x_bins, y_bins>>, ranges |-> <<x_range, y_range>> ]
    /\ UNCHANGED <<cut_file, saved, last_load, histogrammer, app, hist, filled, cutter, removed, frame>>

NextNew ==
    \/ \E number_of_bins \in NewBinCounts, range \in NewRanges :
           New(number_of_bins, range)
    \/ \E x_bins \in NewBinCounts, x_range \in NewRanges,
          y_bins \in NewBinCounts, y_range \in NewRanges :
           New2D(x_bins, x_range, y_bins, y_range)

SpecNew == InitNew /\ [][NextNew]_vars

(***************************************************************************)
(* Properties of the constructors                                          *)
(***************************************************************************)
\* The f64 quotient num / den of a bin width, den >= 0, is strictly
\* positive: a positive number, or +inf when den is 0 and num is positive
\* (0 / 0 is NaN and a negative num / 0 is -inf).
WidthPositive(w) == w.num > 0

\* C13: a constructor call with a zero bin count or with a range whose
\* upper edge is not above its lower edge fails, for either axis of a 2D
\* histogram, so that every histogram that exists has strictly positive bin
\* widths.
C13_InvalidConfigRejected ==
    /\ ret.op \in {"Histogram::new", "Histogram2D::new"} =>
           ((\E i \in 1..Len(ret.bins) :
                 \/ ret.bins[i] = 0
                 \/ ret.ranges[i][2] <= ret.ranges[i][1])
               => ret.status = "err")
    /\ WidthPositive(hist.bin_width)
    /\ WidthPositive(hist2.x_bin_width)
    /\ WidthPositive(hist2.y_bin_width)

(***************************************************************************)
(* Histogrammer (histogrammer.rs): histograms of the ndhistogram crate,    *)
(* kept by name                                                            *)
(***************************************************************************)
\* The sum of all bin contents of the registry is kept up to this number.
MaxCounts == 3

\* axis::Uniform::new(num, low, high): num bins of equal width from low
\* to high, with an underflow bin before them and an overflow bin after.
NewUniform(num, low, high) == [ num |-> num, low |-> low, high |-> high ]

\* Uniform::index(coordinate): 0 is the underflow bin, num + 1 the
\* overflow bin, and the bins between hold [low + k w, low + (k + 1) w).
UniformIndex(axis, coordinate) ==
    IF coordinate < axis.low THEN 0
    ELSE IF coordinate >= axis.high THEN axis.num + 1
    ELSE (axis.num * (coordinate - axis.low)) \div (axis.high - axis.low) + 1

\* Uniform::num_bins: the bins with the underflow and the overflow bin.
UniformNumBins(axis) == axis.num + 2

\* The number of bins of a tuple of axes.
RECURSIVE AxesNumBins(_)
AxesNumBins(axes) ==
    IF axes = << >> THEN 1
    ELSE UniformNumBins(Head(axes)) * AxesNumBins(Tail(axes))

\* AxesTuple::index(coordinate): the first axis varies fastest.
RECURSIVE AxesIndex(_, _)
AxesIndex(axes, coordinate) ==
    IF axes = << >> THEN 0
    ELSE UniformIndex(Head(axes), Head(coordinate))
         + UniformNumBins(Head(axes)) * AxesIndex(Tail(axes), Tail(coordinate))

\* ndhistogram!(axes...): a VecHistogram whose values are all zero.
NewVecHistogram(axes) ==
    [ axes |-> axes, values |-> [ i \in 1..AxesNumBins(axes) |-> 0 ] ]

\* VecHistogram::fill(coordinate): the value of the bin of the coordinate
\* becomes 1.0 instead of growing by 1.0.
VecFill_assign(h, coordinate) ==
    [h EXCEPT !.values[AxesIndex(h.axes, coordinate) + 1] = 1]

\* VecHistogram::fill(coordinate): the value of the bin of the coordinate
\* grows by 1.0.
VecFill(h, coordinate) ==
    [h EXCEPT !.values[AxesIndex(h.axes, coordinate) + 1] = @ + 1]

\* Hist1D::new
NewHist1D(name, bins, range) ==
    [ kind      |-> "Hist1D",
      name      |-> name,
      range     |-> range,
      bin_width |-> [num |-> range[2] - range[1], den |-> bins],
      hist      |-> NewVecHistogram(<<NewUniform(bins, range[1], range[2])>>) ]

\* Hist2D::new
NewHist2D(name, x_bins, x_range, y_bins, y_range) ==
    [ kind        |-> "Hist2D",
      name        |-> name,
      x_range     |-> x_range,
      x_bin_width |-> [num |-> x_range[2] - x_range[1], den |-> x_bins],
      y_range     |-> y_range,
      y_bin_width |-> [num |-> y_range[2] - y_range[1], den |-> y_bins],
      hist        |-> NewVecHistogram(<<NewUniform(x_bins, x_range[1], x_range[2]),
                                        NewUniform(y_bins, y_range[1], y_range[2])>>) ]

\* Histogrammer::new
NewHistogrammer == [ histogram_list |-> << >>, selected_histograms |-> << >> ]

\* Histogrammer::add_hist1d, keeping an entry the name already has.
AddHist1d_keep(h, name, bins, range) ==
    IF name \in DOMAIN h.histogram_list THEN h
    ELSE [h EXCEPT !.histogram_list =
                       MapInsert(@, name, NewHist1D(name, bins, range))]

\* Histogrammer::add_hist1d
AddHist1d(h, name, bins, range) ==
    [h EXCEPT !.histogram_list = MapInsert(@, name, NewHist1D(name, bins, range))]

\* Histogrammer::add_hist2d
AddHist2d(h, name, x_bins, x_range, y_bins, y_range) ==
    [h EXCEPT !.histogram_list =
                  MapInsert(@, name, NewHist2D(name, x_bins, x_range, y_bins, y_range))]

\* data.iter().for_each(|&value| hist.hist.fill(&value))
RECURSIVE FillEach(_, _)
FillEach(vec_hist, coordinates) ==
    IF coordinates = << >> THEN vec_hist
    ELSE FillEach(VecFill(vec_hist, Head(coordinates)), Tail(coordinates))

\* The coordinates of a data array of a 1D histogram.
Coordinates1D(data) == [ i \in 1..Len(data) |-> <<data[i]>> ]

\* x_data.iter().zip(y_data.iter()): as many pairs as the shorter array has.
Zip(x_data, y_data) ==
    [ i \in 1..(IF Len(x_data) < Len(y_data) THEN Len(x_data) ELSE Len(y_data))
        |-> <<x_data[i], y_data[i]>> ]

\* Histogrammer::fill_hist1d: the registry after the call and the value
\* returned.
FillHist1d(h, name, data) ==
    IF name \in DOMAIN h.histogram_list /\ h.histogram_list[name].kind = "Hist1D"
    THEN [ histogrammer |->
               [h EXCEPT !.histogram_list[name].hist = FillEach(@, Coordinates1D(data))],
           result |-> TRUE ]
    ELSE [ histogrammer |-> h, result |-> FALSE ]

\* Histogrammer::fill_hist2d with the test of the two lengths made after
\* the pairs are filled.
FillHist2d_testAfter(h, name, x_data, y_data) ==
    IF name \in DOMAIN h.histogram_list /\ h.histogram_list[name].kind = "Hist2D"
    THEN [ histogrammer |->
               [h EXCEPT !.histogram_list[name].hist = FillEach(@, Zip(x_data, y_data))],
           result |-> Len(x_data) = Len(y_data) ]
    ELSE [ histogrammer |-> h, result |-> FALSE ]

\* Histogrammer::fill_hist2d: the registry after the call and the value
\* returned.
FillHist2d(h, name, x_data, y_data) ==
    IF name \in DOMAIN h.histogram_list /\ h.histogram_list[name].kind = "Hist2D"
    THEN IF Len(x_data) # Len(y_data)
         THEN [ histogrammer |-> h, result |-> FALSE ]
         ELSE [ histogrammer |->
                    [h EXCEPT !.histogram_list[name].hist =
                                  FillEach(@, Zip(x_data, y_data))],
                result |-> TRUE ]
    ELSE [ histogrammer |-> h, result |-> FALSE ]

(***************************************************************************)
(* Specification of the Histogrammer: calls of add and fill                *)
(***************************************************************************)
\* The names, shapes and data of the calls.
HistNames == {"X1", "X2"}
Shapes1D == { [bins |-> 1, range |-> <<0, 4>>], [bins |-> 2, range |-> <<0, 4>>] }
Shapes2D == { [x_bins |-> 2, x_range |-> <<0, 4>>, y_bins |-> 1, y_range |-> <<0, 2>>] }
DataArrays == { << >>, <<3>>, <<-1, 3>>, <<3, 3>> }
YDataArrays == { <<1>>, <<1, 1>> }

\* The sum of all bin contents of a registry.
RECURSIVE TotalCounts(_, _)
TotalCounts(h, names) ==
    IF names = {} THEN 0
    ELSE LET name == CHOOSE name \in names : TRUE
         IN  SumSeq(h.histogram_list[name].hist.values)
             + TotalCounts(h, names \ {name})

InitRegistry ==
    /\ histogrammer = NewHistogrammer
    /\ filled = << >>
    /\ hist = IdleHist
    /\ hist2 = IdleHist2
    /\ cutter = IdleCutter
    /\ removed = {}
    /\ frame = IdleFrame
    /\ app = IdleApp
    /\ last_load = None /\ cut_file = None /\ saved = None
    /\ ret = NoCall

\* A call of add_hist1d(name, bins, range).
CallAddHist1d(name, shape) ==
    /\ histogrammer' = AddHist1d(histogrammer, name, shape.bins, shape.range)
    /\ filled' = MapInsert(filled, name, << >>)
    /\ ret' = [ op |-> "add_hist1d", name |-> name, shape |-> shape,
                old |-> histogrammer ]
    /\ UNCHANGED <<cut_file, saved, last_load, hist, hist2, cutter, removed, frame, app>>

\* A call of add_hist2d(name, x_bins, x_range, y_bins, y_range).
CallAddHist2d(name, shape) ==
    /\ histogrammer' = AddHist2d(histogrammer, name, shape.x_bins, shape.x_range,
                                 shape.y_bins, shape.y_range)
    /\ filled' = MapInsert(filled, name, << >>)
    /\ ret' = [ op |-> "add_hist2d", name |-> name, shape |-> shape,
                old |-> histogrammer ]
    /\ UNCHANGED <<cut_file, saved, last_load, hist, hist2, cutter, removed, frame, app>>

\* A call of fill_hist1d(name, data).
CallFillHist1d(name, data) ==
    LET call == FillHist1d(histogrammer, name, data)
    IN  /\ TotalCounts(call.histogrammer, DOMAIN call.histogrammer.histogram_list)
               <= MaxCounts
        /\ histogrammer' = call.histogrammer
        /\ filled' = IF call.result
                     THEN [filled EXCEPT ![name] = @ \o Coordinates1D(data)]
                     ELSE filled
        /\ ret' = [ op |-> "fill_hist1d", name |-> name, data |-> <<data>>,
                    result |-> call.result, old |-> histogrammer ]
        /\ UNCHANGED <<cut_file, saved, last_load, hist, hist2, cutter, removed, frame, app>>

\* A call of fill_hist2d(name, x_data, y_data).
CallFillHist2d(name, x_data, y_data) ==
    LET call == FillHist2d(histogrammer, name, x_data, y_data)
    IN  /\ TotalCounts(call.histogrammer, DOMAIN call.histogrammer.histogram_list)
               <= MaxCounts
        /\ histogrammer' = call.histogrammer
        /\ filled' = IF call.result
                     THEN [filled EXCEPT ![name] = @ \o Zip(x_data, y_data)]
                     ELSE filled
        /\ ret' = [ op |-> "fill_hist2d", name |-> name, data |-> <<x_data, y_data>>,
                    result |-> call.result, old |-> histogrammer ]
        /\ UNCHANGED <<cut_file, saved, last_load, hist, hist2, cutter, removed, frame, app>>

NextRegistry ==
    \/ \E name \in HistNames, shape \in Shapes1D : CallAddHist1d(name, shape)
    \/ \E name \in HistNames, shape \in Shapes2D : CallAddHist2d(name, shape)
    \/ \E name \in HistNames, data \in DataArrays :
           CallFillHist1d(name, data)
    \/ \E name \in HistNames, x_data \in DataArrays, y_data \in YDataArrays :
           CallFillHist2d(name, x_data, y_data)

SpecRegistry == InitRegistry /\ [][NextRegistry]_vars

(***************************************************************************)
(* Properties of the Histogrammer                                          *)
(***************************************************************************)
\* The registry `h` has a histogram of the kind `kind` under the name.
Registered(h, name, kind) ==
    name \in DOMAIN h.histogram_list /\ h.histogram_list[name].kind = kind

\* C14: fill_hist1d and fill_hist2d on a name that is not registered or is
\* registered with the other dimensionality, and fill_hist2d with x and y
\* arrays of different lengths, return false and leave every histogram of
\* the registry as it was.
C14_FailedFillChangesNothing ==
    /\ (ret.op = "fill_hist1d" /\ ~Registered(ret.old, ret.name, "Hist1D"))
           => (~ret.result /\ histogrammer = ret.old)
    /\ (ret.op = "fill_hist2d"
          /\ (\/ ~Registered(ret.old, ret.name, "Hist2D")
              \/ Len(ret.data[1]) # Len(ret.data[2])))
           => (~ret.result /\ histogrammer = ret.old)
    /\ (ret.op \in {"fill_hist1d", "fill_hist2d"} /\ ~ret.result)
           => histogrammer.histogram_list = ret.old.histogram_list

\* fill_hist2d with a pair to fill, but arrays of different lengths, on a
\* registered 2D histogram that holds a count.
C14_Witness ==
    /\ ret.op = "fill_hist2d"
    /\ Registered(ret.old, ret.name, "Hist2D")
    /\ Len(ret.data[1]) = 1 /\ Len(ret.data[2]) = 2
    /\ SumSeq(ret.old.histogram_list[ret.name].hist.values) > 0
    /\ ~ret.result

\* C15: add_hist1d and add_hist2d on a name put a histogram of the new
\* shape under the name, with every bin zero, also when the name had an
\* entry and when that entry was of the other dimensionality; the entries
\* of the other names stay as they were.  (The registry is a function of
\* the name: two entries never share a name.)
C15_CreateOverwrites ==
    ret.op \in {"add_hist1d", "add_hist2d"} =>
        LET new == histogrammer.histogram_list[ret.name]
        IN  /\ DOMAIN histogrammer.histogram_list
                   = DOMAIN ret.old.histogram_list \cup {ret.name}
            /\ \A other \in DOMAIN ret.old.histogram_list \ {ret.name} :
                   histogrammer.histogram_list[other]
                       = ret.old.histogram_list[other]
            /\ new.name = ret.name
            /\ \A i \in 1..Len(new.hist.values) : new.hist.values[i] = 0
            /\ ret.op = "add_hist1d" =>
                   /\ new.kind = "Hist1D"
                   /\ new.range = ret.shape.range
                   /\ Len(new.hist.values) = ret.shape.bins + 2
            /\ ret.op = "add_hist2d" =>
                   /\ new.kind = "Hist2D"
                   /\ new.x_range = ret.shape.x_range
                   /\ new.y_range = ret.shape.y_range
                   /\ Len(new.hist.values)
                          = (ret.shape.x_bins + 2) * (ret.shape.y_bins + 2)

\* add_hist1d on the name of a 2D histogram that holds a count, while
\* another histogram holds a count too.
C15_Witness ==
    /\ ret.op = "add_hist1d"
    /\ Registered(ret.old, ret.name, "Hist2D")
    /\ SumSeq(ret.old.histogram_list[ret.name].hist.values) > 0
    /\ \E other \in DOMAIN histogrammer.histogram_list \ {ret.name} :
           SumSeq(histogrammer.histogram_list[other].hist.values) > 0

\* Every bin of histogram `new` holds at least what it holds in `old`, a
\* histogram of the same shape.
NoBinDecreased(old, new) ==
    /\ Len(new.hist.values) = Len(old.hist.values)
    /\ \A i \in 1..Len(old.hist.values) : new.hist.values[i] >= old.hist.values[i]

\* C18: a histogram is created with every bin zero; from its creation to
\* its replacement by a create of the same name no bin of it decreases; and
\* a fill of a name that has been filled before adds to the counts the
\* histogram holds, so that the bins sum to the number of all the values
\* filled under the name since its creation (as for the summed CeBrA
\* histograms, created once and filled once per detector).
C18_ContentsOnlyGrow ==
    /\ ret.op \in {"add_hist1d", "add_hist2d"} =>
           /\ \A i \in 1..Len(histogrammer.histogram_list[ret.name].hist.values) :
                  histogrammer.histogram_list[ret.name].hist.values[i] = 0
           /\ \A other \in DOMAIN ret.old.histogram_list \ {ret.name} :
                  /\ other \in DOMAIN histogrammer.histogram_list
                  /\ NoBinDecreased(ret.old.histogram_list[other],
                                    histogrammer.histogram_list[other])
    /\ ret.op \in {"fill_hist1d", "fill_hist2d"} =>
           /\ \A name \in DOMAIN ret.old.histogram_list :
                  /\ name \in DOMAIN histogrammer.histogram_list
                  /\ NoBinDecreased(ret.old.histogram_list[name],
                                    histogrammer.histogram_list[name])
           /\ ret.result =>
                  SumSeq(histogrammer.histogram_list[ret.name].hist.values)
                      = SumSeq(ret.old.histogram_list[ret.name].hist.values)
                            + Len(ret.data[1])
    /\ \A name \in DOMAIN histogrammer.histogram_list :
           SumSeq(histogrammer.histogram_list[name].hist.values)
               = Len(filled[name])

\* A second fill of a 1D histogram, with two values, one of them for a bin
\* that holds a count already, while another 1D histogram is registered.
C18_Witness ==
    /\ ret.op = "fill_hist1d" /\ ret.result
    /\ Len(ret.data[1]) = 2
    /\ \E i \in 1..Len(ret.old.histogram_list[ret.name].hist.values) :
           /\ ret.old.histogram_list[ret.name].hist.values[i] = 1
           /\ histogrammer.histogram_list[ret.name].hist.values[i] = 2
    /\ \E other \in DOMAIN histogrammer.histogram_list \ {ret.name} :
           histogrammer.histogram_list[other].kind = "Hist1D"

(***************************************************************************)
(* Filling from a LazyFrame (histogrammer.rs) and the builders of the      *)
(* registry (sps.rs, CeBrA.rs, sps_cebra.rs)                               *)
(*                                                                         *)
(* A LazyFrame is the function from its column names to their values.  The *)
(* builders are shortened: of the many histograms each creates, the model  *)
(* keeps the first 1D and the first 2D histogram of the focal plane and,   *)
(* for CeBrA, the summed histograms and those of each detector; every      *)
(* histogram has ModelBins bins on each axis instead of the hundreds the   *)
(* code asks for.                                                          *)
(***************************************************************************)
\* Number of bins of an axis of a histogram of the builders.
ModelBins == 2
\* Number of detectors in the list of the CeBrA panel.
MaxDetectors == 2

\* The parquet files of the directory, in the order read_dir yields them.
Files == <<"run_1.parquet", "run_2.parquet", "run_3.parquet">>
\* The files whose scan fails.
Unreadable == {"run_3.parquet"}
\* The columns of a file and their values, one row per position.
FileData(path) ==
    IF path = "run_1.parquet"
    THEN [ X1 |-> <<100>>, X2 |-> <<-100>>,
           Cebra0Energy |-> <<1000>>, Cebra1Energy |-> <<Sentinel>> ]
    ELSE [ X1 |-> <<Sentinel, -100>>, X2 |-> <<100, 400>>,
           Cebra0Energy |-> <<3000, Sentinel>>, Cebra1Energy |-> <<5000, 1000>> ]

\* The rows of the files one after the other.
RECURSIVE ConcatFiles(_)
ConcatFiles(file_paths) ==
    IF Len(file_paths) = 1 THEN FileData(file_paths[1])
    ELSE LET first == FileData(Head(file_paths))
             rest  == ConcatFiles(Tail(file_paths))
         IN  [ c \in DOMAIN first |-> first[c] \o rest[c] ]

\* LazyFrame::scan_parquet_files(file_paths, args)
ScanParquetFiles(file_paths) ==
    IF \E i \in 1..Len(file_paths) : file_paths[i] \in Unreadable
    THEN [ status |-> "err" ]
    ELSE [ status |-> "ok", lf |-> ConcatFiles(file_paths) ]

\* column_to_array1: the values of the column other than the sentinel, or
\* an error when the frame has no such column.
ColumnToArray1(lf, column_name) ==
    IF column_name \notin DOMAIN lf THEN [ status |-> "err" ]
    ELSE [ status |-> "ok",
           data   |-> SelectSeq(lf[column_name], LAMBDA v : v # Sentinel) ]

\* The numbers of the rows from row i on that have the sentinel in neither
\* column.
RECURSIVE RowsKept(_, _, _, _)
RowsKept(lf, x_column_name, y_column_name, i) ==
    IF i > Len(lf[x_column_name]) THEN << >>
    ELSE (IF lf[x_column_name][i] # Sentinel /\ lf[y_column_name][i] # Sentinel
          THEN <<i>> ELSE << >>)
         \o RowsKept(lf, x_column_name, y_column_name, i + 1)

\* columns_to_array1: the values of the two columns in the rows that have
\* the sentinel in neither.
ColumnsToArray1(lf, x_column_name, y_column_name) ==
    IF x_column_name \notin DOMAIN lf \/ y_column_name \notin DOMAIN lf
    THEN [ status |-> "err" ]
    ELSE LET rows == RowsKept(lf, x_column_name, y_column_name, 1)
         IN  [ status |-> "ok",
               x_data |-> [ k \in 1..Len(rows) |-> lf[x_column_name][rows[k]] ],
               y_data |-> [ k \in 1..Len(rows) |-> lf[y_column_name][rows[k]] ] ]

\* Histogrammer::fill_hist1d_from_polars: both failures are only printed.
FillHist1dFromPolars(h, name, lf, column_name) ==
    LET array == ColumnToArray1(lf, column_name)
    IN  IF array.status = "ok" THEN FillHist1d(h, name, array.data).histogrammer
        ELSE h

\* Histogrammer::add_fill_hist1d_from_polars
AddFillHist1dFromPolars(h, name, lf, column_name, bins, range) ==
    FillHist1dFromPolars(AddHist1d(h, name, bins, range), name, lf, column_name)

\* Histogrammer::fill_hist2d_from_polars
FillHist2dFromPolars(h, name, lf, x_column_name, y_column_name) ==
    LET arrays == ColumnsToArray1(lf, x_column_name, y_column_name)
    IN  IF arrays.status = "ok"
        THEN FillHist2d(h, name, arrays.x_data, arrays.y_data).histogrammer
        ELSE h

\* Histogrammer::add_fill_hist2d_from_polars
AddFillHist2dFromPolars(h, name, lf, x_column_name, x_bins, x_range, y_column_name, y_bins, y_range) ==
    FillHist2dFromPolars(AddHist2d(h, name, x_bins, x_range, y_bins, y_range),
                         name, lf, x_column_name, y_column_name)

\* The histograms of the focal plane that add_sps_histograms and
\* add_sps_cebra_histograms create and fill.
SpsHistograms(h, lf) ==
    AddFillHist2dFromPolars(
        AddFillHist1dFromPolars(h, "X1", lf, "X1", ModelBins, <<-300, 300>>),
        "X2_X1", lf, "X1", ModelBins, <<-300, 300>>, "X2", ModelBins, <<-300, 300>>)

\* add_sps_histograms
AddSpsHistograms(file_paths) ==
    LET scan == ScanParquetFiles(file_paths)
    IN  IF scan.status = "err" THEN [ status |-> "err" ]
        ELSE [ status |-> "ok",
               histogrammer |-> SpsHistograms(NewHistogrammer, scan.lf) ]

\* lf.with_column(expr.alias(name)) for an expression of the column
\* column_name whose values are `values`: the frame with the new column,
\* or a frame no column of which can be collected when column_name is
\* missing.
WithColumn(lf, name, column_name, values) ==
    IF column_name \notin DOMAIN lf THEN << >>
    ELSE MapInsert(lf, name, values)

\* The values of an expression of one column, row by row.
MapColumn(lf, column_name, expr) ==
    IF column_name \notin DOMAIN lf THEN << >>
    ELSE [ i \in 1..Len(lf[column_name]) |-> expr[lf[column_name][i]] ]

\* The values a column of the frame takes.
ColumnValues(lf, column_name) ==
    IF column_name \notin DOMAIN lf THEN {}
    ELSE { lf[column_name][i] : i \in 1..Len(lf[column_name]) }

\* The name of a column or histogram of detector `num`.
CebraName(num, suffix) == "Cebra" \o ToString(num) \o suffix

\* a x^2 + b x + c, the energy calibration of a detector.
Calibrated(values, x) ==
    (IF values[1] = 0 THEN 0 ELSE x * x * values[1]) + x * values[2] + values[3]

\* The body of the loop over the detectors of add_cebra_histograms, for
\* the detectors from the first of the list on.
RECURSIVE DetectorLoop(_, _, _)
DetectorLoop(h, lf, detectors) ==
    IF detectors = << >> THEN h
    ELSE LET detector == Head(detectors)
             num  == detector.number
             lf1  == WithColumn(lf, CebraName(num, "EnergyGainMatched"),
                         CebraName(num, "Energy"),
                         MapColumn(lf, CebraName(num, "Energy"),
                             [ e \in ColumnValues(lf, CebraName(num, "Energy")) |->
                                 e * detector.gain_matched_values[1]
                                 + detector.gain_matched_values[2] ]))
             lf2  == WithColumn(lf1, CebraName(num, "EnergyCalibrated"),
                         CebraName(num, "EnergyGainMatched"),
                         MapColumn(lf1, CebraName(num, "EnergyGainMatched"),
                             [ g \in ColumnValues(lf1, CebraName(num, "EnergyGainMatched")) |->
                                 Calibrated(detector.energy_calibration_values, g) ]))
             h1   == AddFillHist1dFromPolars(h, CebraName(num, "Energy"), lf2,
                         CebraName(num, "Energy"), ModelBins, <<0, 4096>>)
             h2   == AddFillHist1dFromPolars(h1, CebraName(num, "EnergyGainMatched"), lf2,
                         CebraName(num, "EnergyGainMatched"), ModelBins, <<0, 4096>>)
             h3   == AddFillHist1dFromPolars(h2, CebraName(num, "EnergyCalibrated"), lf2,
                         CebraName(num, "EnergyCalibrated"), ModelBins, <<0, 6000>>)
             h4   == FillHist1dFromPolars(h3, "CeBrAEnergyGainMatched", lf2,
                         CebraName(num, "EnergyGainMatched"))
             h5   == FillHist1dFromPolars(h4, "CeBrAEnergyCalibrated", lf2,
                         CebraName(num, "EnergyCalibrated"))
         IN  DetectorLoop(h5, lf, Tail(detectors))

\* The summed histograms, created before the loop over the detectors.
SummedHistograms(h) ==
    AddHist1d(AddHist1d(h, "CeBrAEnergyGainMatched", ModelBins, <<0, 4096>>),
              "CeBrAEnergyCalibrated", ModelBins, <<0, 6000>>)

\* add_cebra_histograms
AddCebraHistograms(file_paths, detectors) ==
    LET scan == ScanParquetFiles(file_paths)
    IN  IF scan.status = "err" THEN [ status |-> "err" ]
        ELSE [ status |-> "ok",
               histogrammer |->
                   DetectorLoop(SummedHistograms(NewHistogrammer), scan.lf, detectors) ]

\* add_sps_cebra_histograms, for the empty list of detectors.
AddSpsCebraHistograms(file_paths, detectors) ==
    LET scan == ScanParquetFiles(file_paths)
    IN  IF scan.status = "err" THEN [ status |-> "err" ]
        ELSE [ status |-> "ok",
               histogrammer |->
                   SummedHistograms(SpsHistograms(NewHistogrammer, scan.lf)) ]

(***************************************************************************)
(* Specification of MyApp::update (ui.rs): one frame per step, with at     *)
(* most one click, and the rendering of the histograms at its end          *)
(***************************************************************************)
Options == {"SPS", "CeBrA", "SPS+CeBrA"}

\* The input of a load: what the builder of the selected option reads.
LoadInput(a) ==
    [ selected_option |-> a.selected_option,
      file_paths      |-> a.file_paths,
      detectors       |-> IF a.selected_option = "CeBrA" THEN a.cebr3_detectors
                          ELSE IF a.selected_option = "SPS+CeBrA"
                               THEN a.sps_cebr3_detectors
                               ELSE << >> ]

\* The builder of the selected option, called on the selected files.
Build(input) ==
    IF input.selected_option = "SPS" THEN AddSpsHistograms(input.file_paths)
    ELSE IF input.selected_option = "CeBrA"
         THEN AddCebraHistograms(input.file_paths, input.detectors)
         ELSE AddSpsCebraHistograms(input.file_paths, input.detectors)

\* The match on the result of a builder, keeping the histograms of the
\* registry whose names the builder did not create.
Install_merge(a, h, built) ==
    IF built.status = "ok"
    THEN [ app          |-> [a EXCEPT !.histograms_loaded = TRUE],
           histogrammer |->
               [built.histogrammer EXCEPT !.histogram_list = @ @@ h.histogram_list],
           status       |-> "ok" ]
    ELSE [ app |-> a, histogrammer |-> h, status |-> built.status ]

\* The match on the result of a builder: Ok(histogrammer) replaces
\* self.histogrammer and sets histograms_loaded, Err(e) is printed.
Install(a, h, built) ==
    IF built.status = "ok"
    THEN [ app          |-> [a EXCEPT !.histograms_loaded = TRUE],
           histogrammer |-> built.histogrammer,
           status       |-> "ok" ]
    ELSE [ app |-> a, histogrammer |-> h, status |-> built.status ]

\* The handler of "Load Histograms", emptying the registry and setting
\* histograms_loaded before the builder is called.
LoadHistograms_eager(a, h) ==
    Install([a EXCEPT !.histograms_loaded = TRUE], NewHistogrammer,
            IF a.file_paths = << >> THEN [ status |-> "none" ]
            ELSE Build(LoadInput(a)))

\* The handler of "Load Histograms": histograms_loaded is reset; with
\* files selected the builder of the selected option makes a registry of
\* its own, and the match on its result follows.
LoadHistograms(a, h) ==
    Install([a EXCEPT !.histograms_loaded = FALSE], h,
            IF a.file_paths = << >> THEN [ status |-> "none" ]
            ELSE Build(LoadInput(a)))

\* The end of update: render_buttons and render_selected_histograms read
\* the registry when histograms_loaded is set.  `seen` is what they read.
Render(op, a, h) ==
    [ op       |-> op,
      rendered |-> a.histograms_loaded,
      seen     |-> IF a.histograms_loaded THEN Some(h.histogram_list) ELSE None ]

InitApp ==
    /\ app = IdleApp
    /\ histogrammer = NewHistogrammer
    /\ last_load = None /\ cut_file = None /\ saved = None
    /\ hist = IdleHist
    /\ filled = << >>
    /\ hist2 = IdleHist2
    /\ cutter = IdleCutter
    /\ removed = {}
    /\ frame = IdleFrame
    /\ ret = NoCall

\* A frame with a click on "Open Directory"; the dialog may be cancelled.
ClickOpenDirectory(picked) ==
    /\ app' = IF picked = None THEN app
              ELSE [app EXCEPT !.selected_directory = picked]
    /\ ret' = Render("update", app', histogrammer)
    /\ UNCHANGED <<cut_file, saved, histogrammer, last_load, hist, filled, hist2, cutter, removed, frame>>

\* A frame with a click on "Load Histograms".
ClickLoadHistograms ==
    /\ app.selected_directory # None
    /\ LET load == LoadHistograms(app, histogrammer)
       IN  /\ app' = load.app
           /\ histogrammer' = load.histogrammer
           /\ last_load' = IF load.status = "ok" THEN Some(LoadInput(app))
                           ELSE last_load
           /\ ret' = Render("load", load.app, load.histogrammer)
                         @@ [ status |-> load.status, old |-> histogrammer ]
    /\ UNCHANGED <<cut_file, saved, hist, filled, hist2, cutter, removed, frame>>

\* file_paths.contains(&path)
Contains(file_paths, path) == \E i \in 1..Len(file_paths) : file_paths[i] = path

\* The loop of "Select All" over the files of the directory from file i on.
RECURSIVE SelectAll(_, _)
SelectAll(file_paths, i) ==
    IF i > Len(Files) THEN file_paths
    ELSE SelectAll(IF Contains(file_paths, Files[i]) THEN file_paths
                   ELSE Append(file_paths, Files[i]), i + 1)

\* A frame with a click on "Select All".
ClickSelectAll ==
    /\ app.selected_directory # None
    /\ app' = [app EXCEPT !.file_paths = SelectAll(@, 1)]
    /\ ret' = Render("update", app', histogrammer)
    /\ UNCHANGED <<cut_file, saved, histogrammer, last_load, hist, filled, hist2, cutter, removed, frame>>

\* A frame with a click on the label of a file: the file leaves the
\* selection when it is in it and is pushed onto it otherwise.
ClickFile(path) ==
    /\ app.selected_directory # None
    /\ app' = [app EXCEPT !.file_paths =
                   IF Contains(@, path) THEN SelectSeq(@, LAMBDA p : p # path)
                   ELSE Append(@, path)]
    /\ ret' = Render("update", app', histogrammer)
    /\ UNCHANGED <<cut_file, saved, histogrammer, last_load, hist, filled, hist2, cutter, removed, frame>>

\* A frame with a click on one of the labels SPS, CeBrA, SPS+CeBrA.
ClickOption(option) ==
    /\ app' = [app EXCEPT !.selected_option = option]
    /\ ret' = Render("update", app', histogrammer)
    /\ UNCHANGED <<cut_file, saved, histogrammer, last_load, hist, filled, hist2, cutter, removed, frame>>

\* detectors.iter().map(|d| d.number).max().unwrap_or(-1)
RECURSIVE MaxDetNumber(_)
MaxDetNumber(detectors) ==
    IF detectors = << >> THEN -1
    ELSE LET rest == MaxDetNumber(Tail(detectors))
         IN  IF Head(detectors).number > rest THEN Head(detectors).number ELSE rest

\* A frame with a click on "Add Detector" of cebra_detector_ui.  (The
\* fields of a detector keep the values this button gives them: the drag
\* values of the panel and its settings files are left out.)
ClickAddDetector ==
    /\ app.selected_option = "CeBrA"
    /\ MaxDetNumber(app.cebr3_detectors) < 6
    /\ Len(app.cebr3_detectors) < MaxDetectors
    /\ app' = [app EXCEPT !.cebr3_detectors =
                   Append(@, [ number                    |-> MaxDetNumber(@) + 1,
                               gain_matched_values       |-> <<1, 0>>,
                               energy_calibration_values |-> <<0, 1, 0>> ])]
    /\ ret' = Render("update", app', histogrammer)
    /\ UNCHANGED <<cut_file, saved, histogrammer, last_load, hist, filled, hist2, cutter, removed, frame>>

\* A frame with a click on the button of a histogram in render_buttons.
ClickHistogramButton(name) ==
    /\ app.histograms_loaded
    /\ name \in DOMAIN histogrammer.histogram_list
    /\ histogrammer' = [histogrammer EXCEPT !.selected_histograms = <<name>>]
    /\ ret' = Render("update", app, histogrammer')
    /\ UNCHANGED <<cut_file, saved, app, last_load, hist, filled, hist2, cutter, removed, frame>>

NextApp ==
    \/ \E picked \in {None, Some("dir")} : ClickOpenDirectory(picked)
    \/ ClickLoadHistograms
    \/ ClickSelectAll
    \/ \E i \in 1..Len(Files) : ClickFile(Files[i])
    \/ \E option \in Options : ClickOption(option)
    \/ ClickAddDetector
    \/ \E name \in {"X1", "CeBrAEnergyGainMatched"} : ClickHistogramButton(name)

SpecApp == InitApp /\ [][NextApp]_vars

(***************************************************************************)
(* Properties of the loading and the rendering                             *)
(***************************************************************************)
\* The names of the histograms the builder creates for an input.
CreatedNames(input) ==
    LET sps    == {"X1", "X2_X1"}
        summed == {"CeBrAEnergyGainMatched", "CeBrAEnergyCalibrated"}
    IN  IF input.selected_option = "SPS" THEN sps
        ELSE IF input.selected_option = "SPS+CeBrA" THEN sps \cup summed
        ELSE summed
             \cup { CebraName(input.detectors[i].number, suffix) :
                      i \in 1..Len(input.detectors),
                      suffix \in {"Energy", "EnergyGainMatched", "EnergyCalibrated"} }

\* The number of values of a column of the files that are not the sentinel.
RECURSIVE ColumnCount(_, _)
ColumnCount(file_paths, column_name) ==
    IF file_paths = << >> THEN 0
    ELSE Len(SelectSeq(FileData(Head(file_paths))[column_name],
                       LAMBDA v : v # Sentinel))
         + ColumnCount(Tail(file_paths), column_name)

\* C16: a load that succeeds leaves in the registry the histograms that
\* this load created and no other, with the bin contents this load gave
\* them: nothing of the registry of an earlier load remains.
C16_ReloadDiscards ==
    (ret.op = "load" /\ ret.status = "ok") =>
        /\ histogrammer = Build(LoadInput(app)).histogrammer
        /\ DOMAIN histogrammer.histogram_list = CreatedNames(LoadInput(app))
        /\ "X1" \in DOMAIN histogrammer.histogram_list =>
               SumSeq(histogrammer.histogram_list["X1"].hist.values)
                   = ColumnCount(app.file_paths, "X1")
        /\ histogrammer.selected_histograms = << >>

\* A load that succeeds on a registry which an earlier load filled with a
\* histogram this load does not create, and with other counts for one it
\* does create.
C16_Witness ==
    /\ ret.op = "load" /\ ret.status = "ok"
    /\ \E name \in DOMAIN ret.old.histogram_list :
           name \notin DOMAIN histogrammer.histogram_list
    /\ \E name \in DOMAIN ret.old.histogram_list :
           /\ name \in DOMAIN histogrammer.histogram_list
           /\ SumSeq(ret.old.histogram_list[name].hist.values)
                  > SumSeq(histogrammer.histogram_list[name].hist.values)

\* C17: the rendering reads the registry only when histograms_loaded is
\* set, and whenever histograms_loaded is set the registry is the whole
\* registry that the last load that succeeded built, every histogram of it
\* created and filled.
C17_RenderSeesCompleteRegistry ==
    /\ ret.op \in {"update", "load"} =>
           /\ ret.rendered <=> app.histograms_loaded
           /\ ret.seen # None <=> ret.rendered
           /\ ret.seen # None =>
                  /\ last_load # None
                  /\ ret.seen[1] = Build(last_load[1]).histogrammer.histogram_list
    /\ app.histograms_loaded =>
           /\ last_load # None
           /\ histogrammer.histogram_list
                  = Build(last_load[1]).histogrammer.histogram_list
           /\ DOMAIN histogrammer.histogram_list = CreatedNames(last_load[1])

\* A frame that renders the registry of the last load after the selection
\* of files has changed to one that cannot be loaded.
C17_Witness ==
    /\ ret.op = "update" /\ ret.rendered
    /\ last_load # None
    /\ LoadInput(app) # last_load[1]
    /\ Build(LoadInput(app)).status = "err"
    /\ ret.seen[1] # << >>

(***************************************************************************)
(* Specification of add_new_cut on the cut sets of the filtering: cuts     *)
(* with vertices and selected columns, any of them active                  *)
(***************************************************************************)
InitAddCut ==
    /\ \E ids \in SUBSET { CutId(n) : n \in 1..MaxCuts } :
          \E cuts \in [ids -> CutChoices] :
              \E active \in {None} \cup { Some(id) : id \in ids } :
                  cutter = [ cuts |-> cuts, active_cut_id |-> active,
                             draw_flag |-> TRUE ]
    /\ removed = {}
    /\ frame = IdleFrame
    /\ hist = IdleHist
    /\ filled = << >>
    /\ hist2 = IdleHist2
    /\ histogrammer = IdleHistogrammer
    /\ app = IdleApp
    /\ last_load = None /\ cut_file = None /\ saved = None
    /\ ret = NoCall

NextAddCut == ClickNew

SpecAddCut == InitAddCut /\ [][NextAddCut]_vars

\* C20: right after add_new_cut the active cut is the cut of the new id,
\* and that cut has no vertex, no selected vertex and no selected column.
C20_AddCutEmptyAndActive ==
    ret.op = "add_new_cut" =>
        /\ cutter.active_cut_id = Some(ret.new_id)
        /\ ret.new_id \in DOMAIN cutter.cuts
        /\ cutter.cuts[ret.new_id].vertices = << >>
        /\ cutter.cuts[ret.new_id].selected_vertex_index = None
        /\ cutter.cuts[ret.new_id].selected_x_column = None
        /\ cutter.cuts[ret.new_id].selected_y_column = None

\* add_new_cut while no cut is active and the new id names a cut of the
\* set that has vertices and both columns selected.
C20_Witness ==
    /\ ret.op = "add_new_cut"
    /\ ret.old.active_cut_id = None
    /\ ret.new_id \in DOMAIN ret.old.cuts
    /\ ret.old.cuts[ret.new_id].vertices # << >>
    /\ ret.old.cuts[ret.new_id].selected_x_column # None
    /\ ret.old.cuts[ret.new_id].selected_y_column # None

(***************************************************************************)
(* Specification of the cut set: the "New" button, the "Remove Active Cut" *)
(* button and the "Active Cut" chooser, on cut sets with vertices and      *)
(* selected columns                                                        *)
(***************************************************************************)
NextCutSet ==
    \/ ClickNew
    \/ ClickRemoveActiveCut
    \/ \E n \in 1..MaxCuts : SelectActiveCut(Some(CutId(n)))
    \/ SelectActiveCut(None)

SpecCutSet == InitAddCut /\ [][NextCutSet]_vars

\* C21: right after the removal of the cut id, id is not a key of the set,
\* every other cut is in the set with the polygon it had, and the active
\* id is None when id was the active cut.
C21_RemoveDeletesAndClears ==
    ret.op = "remove" =>
        /\ ret.id \notin DOMAIN cutter.cuts
        /\ DOMAIN cutter.cuts = DOMAIN ret.old.cuts \ {ret.id}
        /\ \A k \in DOMAIN cutter.cuts : cutter.cuts[k] = ret.old.cuts[k]
        /\ ret.old.active_cut_id = Some(ret.id) => cutter.active_cut_id = None

\* The active cut is removed from a set of two cuts; the cut that stays
\* has vertices and both columns selected.
C21_Witness ==
    /\ ret.op = "remove"
    /\ ret.old.active_cut_id = Some(ret.id)
    /\ ret.id \in DOMAIN ret.old.cuts
    /\ \E k \in DOMAIN cutter.cuts :
          /\ cutter.cuts[k].vertices # << >>
          /\ cutter.cuts[k].selected_x_column # None
          /\ cutter.cuts[k].selected_y_column # None
    /\ cutter.active_cut_id = None

(***************************************************************************)
(* Specification of point containment: to_geo_polygon and                  *)
(* Polygon::contains as filter_dataframe applies them to one row           *)
(***************************************************************************)
\* Largest coordinate of a corner of the polygons tried.
MaxCoord == 3

\* The square and the two points of the specification's example.
ExampleSquare == << <<0, 0>>, <<10, 0>>, <<10, 10>>, <<0, 10>> >>
ExamplePoints == { <<5, 5>>, <<15, 5>> }

\* The four corners of the rectangle from (x1, y1) to (x2, y2), in every
\* order: around the boundary in both directions from each corner, and
\* the orders that cross the rectangle.
CornerOrders(x1, y1, x2, y2) ==
    LET corners == { <<x1, y1>>, <<x2, y1>>, <<x2, y2>>, <<x1, y2>> }
    IN  { v \in [1..4 -> corners] : \A i, j \in 1..4 : i # j => v[i] # v[j] }

\* The vertex lists tried: no vertex, one vertex, two vertices, the
\* rectangles with corners on the grid, and the example square.
ContainsPolygons ==
    LET grid == (0..MaxCoord) \X (0..MaxCoord)
    IN  { << >> }
        \cup { <<a>> : a \in grid }
        \cup { <<a, b>> : a \in grid, b \in grid }
        \cup UNION { CornerOrders(x1, y1, x2, y2) :
                       x1 \in 0..MaxCoord, y1 \in 0..MaxCoord,
                       x2 \in 0..MaxCoord, y2 \in 0..MaxCoord }
        \cup { ExampleSquare }

\* The points tried: the grid with a margin of one around it, and the
\* example points.
ContainsPoints ==
    ((-1..(MaxCoord + 1)) \X (-1..(MaxCoord + 1))) \cup ExamplePoints

\* The mask entry filter_dataframe computes for a row with the values
\* (x, y): polygon.contains(&Point::new(x, y)) on self.to_geo_polygon().
PolygonContains(poly, x, y) ==
    GeoContains(ToGeoPolygon(poly.vertices), <<x, y>>)

\* The inputs of one call: a vertex list and a point.
InitContains ==
    /\ cutter = IdleCutter
    /\ removed = {}
    /\ frame = IdleFrame
    /\ hist = IdleHist
    /\ filled = << >>
    /\ hist2 = IdleHist2
    /\ histogrammer = IdleHistogrammer
    /\ app = IdleApp
    /\ last_load = None /\ cut_file = None /\ saved = None
    /\ \E vertices \in ContainsPolygons : \E p \in ContainsPoints :
          ret = [ op |-> "input", vertices |-> vertices, x |-> p[1], y |-> p[2] ]

\* The call on the inputs.
CallContains ==
    /\ ret.op = "input"
    /\ ret' = [ op |-> "contains", vertices |-> ret.vertices,
                x |-> ret.x, y |-> ret.y,
                result |-> PolygonContains(
                               [NewPolygon EXCEPT !.vertices = ret.vertices],
                               ret.x, ret.y) ]
    /\ UNCHANGED <<cut_file, saved, cutter, removed, frame, hist, filled, hist2, histogrammer,
                   app, last_load>>

NextContains == CallContains

SpecContains == InitContains /\ [][NextContains]_vars

\* v lists the four corners of an axis-aligned rectangle of positive width
\* and height in order around its boundary: each vertex shares exactly one
\* coordinate with the next, the last with the first.
OrderedRectangle(v) ==
    /\ Len(v) = 4
    /\ Cardinality({ v[i][1] : i \in 1..4 }) = 2
    /\ Cardinality({ v[i][2] : i \in 1..4 }) = 2
    /\ Cardinality({ v[i] : i \in 1..4 }) = 4
    /\ \A i \in 1..4 :
          LET a == v[i]
              b == v[(i % 4) + 1]
          IN  (a[1] = b[1]) # (a[2] = b[2])

MinOf(s) == CHOOSE m \in s : \A e \in s : m <= e
MaxOf(s) == CHOOSE m \in s : \A e \in s : e <= m

StrictlyInterior(v, x, y) ==
    /\ MinOf({ v[i][1] : i \in 1..4 }) < x /\ x < MaxOf({ v[i][1] : i \in 1..4 })
    /\ MinOf({ v[i][2] : i \in 1..4 }) < y /\ y < MaxOf({ v[i][2] : i \in 1..4 })

StrictlyExterior(v, x, y) ==
    \/ x < MinOf({ v[i][1] : i \in 1..4 }) \/ MaxOf({ v[i][1] : i \in 1..4 }) < x
    \/ y < MinOf({ v[i][2] : i \in 1..4 }) \/ MaxOf({ v[i][2] : i \in 1..4 }) < y

\* C22: a polygon with fewer than 3 vertices contains no point; a
\* rectangle with its corners listed in order contains every point
\* strictly inside it and no point strictly outside it; the example square
\* contains (5,5) and does not contain (15,5).
C22_PointContainment ==
    ret.op = "contains" =>
        /\ Len(ret.vertices) < 3 => ~ret.result
        /\ OrderedRectangle(ret.vertices) =>
              /\ StrictlyInterior(ret.vertices, ret.x, ret.y) => ret.result
              /\ StrictlyExterior(ret.vertices, ret.x, ret.y) => ~ret.result
        /\ ret.vertices = ExampleSquare /\ <<ret.x, ret.y>> = <<5, 5>>
              => ret.result
        /\ ret.vertices = ExampleSquare /\ <<ret.x, ret.y>> = <<15, 5>>
              => ~ret.result

\* A point strictly inside a rectangle whose vertex list starts at the
\* corner with the largest coordinates is found inside.
C22_Witness ==
    /\ ret.op = "contains"
    /\ OrderedRectangle(ret.vertices)
    /\ ret.vertices[1][1] > ret.vertices[3][1]
    /\ ret.vertices[1][2] > ret.vertices[3][2]
    /\ StrictlyInterior(ret.vertices, ret.x, ret.y)
    /\ ret.result

(***************************************************************************)
(* Specification of the cut editor: the mouse handling of                  *)
(* handle_mouse_interactions on the polygon of the active cut, whose       *)
(* columns are selected or not                                             *)
(***************************************************************************)
\* Pointer positions of a click in the editor: (1,1) is at the same
\* distance from the three others.
EditorPositions == { <<0, 0>>, <<2, 0>>, <<0, 2>>, <<1, 1>> }

\* One cut, active and drawn, with no vertex yet; its columns are both
\* unselected or one of the ColumnChoices.
InitEditor ==
    /\ \E xy \in ColumnChoices \cup { <<None, None>> } :
          cutter = [ cuts |-> MapInsert(<< >>, CutId(1),
                                 [NewPolygon EXCEPT !.selected_x_column = xy[1],
                                                    !.selected_y_column = xy[2]]),
                     active_cut_id |-> Some(CutId(1)),
                     draw_flag |-> TRUE ]
    /\ removed = {}
    /\ frame = IdleFrame
    /\ hist = IdleHist
    /\ filled = << >>
    /\ hist2 = IdleHist2
    /\ histogrammer = IdleHistogrammer
    /\ app = IdleApp
    /\ last_load = None /\ cut_file = None /\ saved = None
    /\ ret = NoCall

NextEditor ==
    \/ \E pointer_pos \in EditorPositions : Clicked(pointer_pos)
    \/ \E pointer_pos \in EditorPositions : SecondaryClicked(pointer_pos)
    \/ MiddleClicked

SpecEditor == InitEditor /\ [][NextEditor]_vars

\* The vertices of the edited polygon before and after the last action.
VerticesBefore == ret.old.cuts[ret.old.active_cut_id[1]].vertices
VerticesAfter == cutter.cuts[ret.old.active_cut_id[1]].vertices

\* The square of the Euclidean distance between two points.
SquaredDistance(p, q) ==
    (p[1] - q[1]) * (p[1] - q[1]) + (p[2] - q[2]) * (p[2] - q[2])

\* s without its i-th element.
Without(s, i) ==
    [ k \in 1..(Len(s) - 1) |-> IF k < i THEN s[k] ELSE s[k + 1] ]

\* The index of the vertex of v nearest to p, the lowest among ties.
Nearest(v, p, i) ==
    /\ \A j \in 1..Len(v) : SquaredDistance(v[i], p) <= SquaredDistance(v[j], p)
    /\ \A j \in 1..(i - 1) : SquaredDistance(v[i], p) < SquaredDistance(v[j], p)

\* C23: the add action appends the pointer position to the vertex list;
\* the delete action removes the one vertex nearest to the pointer, the
\* lowest index among ties, and leaves a list with no vertex as it is; the
\* clear action leaves the list empty.
C23_VertexEditing ==
    /\ ret.op = "clicked" =>
          VerticesAfter = Append(VerticesBefore, ret.pointer_pos)
    /\ ret.op = "secondary_clicked" =>
          IF VerticesBefore = << >> THEN VerticesAfter = << >>
          ELSE \E i \in 1..Len(VerticesBefore) :
                  /\ Nearest(VerticesBefore, ret.pointer_pos, i)
                  /\ VerticesAfter = Without(VerticesBefore, i)
    /\ ret.op = "middle_clicked" => VerticesAfter = << >>

\* The delete action on two different vertices at the same distance from
\* the pointer removes the first.
C23_Witness ==
    /\ ret.op = "secondary_clicked"
    /\ Len(VerticesBefore) = 2
    /\ VerticesBefore[1] # VerticesBefore[2]
    /\ SquaredDistance(VerticesBefore[1], ret.pointer_pos)
           = SquaredDistance(VerticesBefore[2], ret.pointer_pos)
    /\ VerticesAfter = <<VerticesBefore[2]>>

\* An edit of the vertex list: add, delete or clear.
VertexEdit == ret.op \in { "clicked", "secondary_clicked", "middle_clicked" }

\* C24: an add, delete or clear action leaves the selected x column and
\* the selected y column of every cut as they were, so a sequence of such
\* actions does too.
C24_EditsKeepColumns ==
    VertexEdit =>
        /\ DOMAIN cutter.cuts = DOMAIN ret.old.cuts
        /\ \A id \in DOMAIN cutter.cuts :
              /\ cutter.cuts[id].selected_x_column
                     = ret.old.cuts[id].selected_x_column
              /\ cutter.cuts[id].selected_y_column
                     = ret.old.cuts[id].selected_y_column

\* The clear action on a polygon with vertices and both columns selected.
C24_Witness ==
    /\ ret.op = "middle_clicked"
    /\ VerticesBefore # << >>
    /\ VerticesAfter = << >>
    /\ cutter.cuts[CutId(1)].selected_x_column # None
    /\ cutter.cuts[CutId(1)].selected_y_column # None

\* C27: a right click (secondary click) adds a vertex at the pointer
\* position, a left click (primary click) removes a vertex, and a middle
\* click removes all vertices.
C27_MouseBindingsAsDocumented ==
    /\ ret.op = "secondary_clicked" =>
          VerticesAfter = Append(VerticesBefore, ret.pointer_pos)
    /\ ret.op = "clicked" =>
          /\ VerticesBefore # << >> => Len(VerticesAfter) = Len(VerticesBefore) - 1
          /\ VerticesBefore = << >> => VerticesAfter = << >>
    /\ ret.op = "middle_clicked" => VerticesAfter = << >>

(***************************************************************************)
(* Specification of the heat map data: Histogram2D::fill and               *)
(* Histogram2D::generate_bar_data, with the pairs given to fill kept in    *)
(* `filled`                                                                *)
(***************************************************************************)
\* Bin counts and coordinates of this specification: an x axis of 2 or 64
\* bins over [0, 3), a y axis of 1 or 2 bins over [0, 2).
BarXBinCounts == {2, 64}
BarYBinCounts == {1, 2}
BarXValues == {-1, 0, 2}
BarYValues == {0, 1, 2}

\* The test generate_bar_data skips an entry of the map on.
SkipsBin_one(count) == count <= 1

SkipsBin(count) == count = 0

\* (x_bin_start + x_bin_end) / 2.0 for the bin `index` of an axis that
\* starts at `low` with bins of width `width`:
\* low + index * width + width / 2, as a quotient.
BinCentre(low, width, index) ==
    [ num |-> 2 * low * width.den + (2 * index + 1) * width.num,
      den |-> 2 * width.den ]

\* The BarData generate_bar_data pushes for one entry of the map.
BarData(h, key, count) ==
    [ x         |-> BinCentre(h.x_range[1], h.x_bin_width, key[1]),
      y         |-> BinCentre(h.y_range[1], h.y_bin_width, key[2]),
      bar_width |-> h.x_bin_width,
      height    |-> h.y_bin_width,
      count     |-> count ]

\* The loop of generate_bar_data over the entries of the map that are
\* left to visit.  The order of the visits is the map's, which the claims
\* do not depend on.
RECURSIVE BarLoop(_, _)
BarLoop(h, keys) ==
    IF keys = {} THEN << >>
    ELSE LET key  == CHOOSE k \in keys : TRUE
             rest == BarLoop(h, keys \ {key})
         IN  IF SkipsBin(h.bins[key]) THEN rest
             ELSE <<BarData(h, key, h.bins[key])>> \o rest

\* Histogram2D::generate_bar_data
GenerateBarData(h) == BarLoop(h, DOMAIN h.bins)

InitBars ==
    /\ \E x_bins \in BarXBinCounts, y_bins \in BarYBinCounts :
           hist2 = NewHistogram2D(x_bins, <<0, 3>>, y_bins, <<0, 2>>)
    /\ filled = << >>
    /\ hist = IdleHist
    /\ cutter = IdleCutter
    /\ removed = {}
    /\ frame = IdleFrame
    /\ histogrammer = IdleHistogrammer
    /\ app = IdleApp
    /\ last_load = None /\ cut_file = None /\ saved = None
    /\ ret = NoCall

\* A call of Histogram2D::fill(x_value, y_value).
FillBars(x_value, y_value) ==
    /\ Len(filled) < MaxFills2D
    /\ hist2' = Hist2Fill(hist2, x_value, y_value)
    /\ filled' = Append(filled, <<x_value, y_value>>)
    /\ ret' = [ op |-> "fill", x_value |-> x_value, y_value |-> y_value ]
    /\ UNCHANGED <<cut_file, saved, hist, cutter, removed, frame, histogrammer, app, last_load>>

\* A call of Histogram2D::generate_bar_data.
CallGenerateBarData ==
    /\ ret' = [ op |-> "generate_bar_data", bars |-> GenerateBarData(hist2) ]
    /\ UNCHANGED <<cut_file, saved, hist2, filled, hist, cutter, removed, frame, histogrammer,
                   app, last_load>>

NextBars ==
    \/ \E x_value \in BarXValues, y_value \in BarYValues :
           FillBars(x_value, y_value)
    \/ CallGenerateBarData

SpecBars == InitBars /\ [][NextBars]_vars

\* The quotient v lies in the bin k of the axis from `low` with bins of
\* width w: low + k * w <= v < low + (k + 1) * w.
InBin(low, w, k, v) ==
    /\ k * w.num * v.den <= (v.num - low * v.den) * w.den
    /\ (v.num - low * v.den) * w.den < (k + 1) * w.num * v.den

\* Two quotients lie in the same bin of the axis.
SameBin(low, w, v1, v2) ==
    \E k \in 0..(w.den - 1) : InBin(low, w, k, v1) /\ InBin(low, w, k, v2)

Whole(n) == [ num |-> n, den |-> 1 ]

\* Two points lie in the same cell of the histogram hist2.
SameCell(x1, y1, x2, y2) ==
    /\ SameBin(hist2.x_range[1], hist2.x_bin_width, x1, x2)
    /\ SameBin(hist2.y_range[1], hist2.y_bin_width, y1, y2)

\* The pairs given to fill so far, and those of them inside both ranges.
FilledPairs == { filled[i] : i \in 1..Len(filled) }
AcceptedPairs ==
    { p \in FilledPairs :
        /\ hist2.x_range[1] <= p[1] /\ p[1] < hist2.x_range[2]
        /\ hist2.y_range[1] <= p[2] /\ p[2] < hist2.y_range[2] }

\* The bar e is the bar of the cell of the pair p.
BarOfPair(e, p) == SameCell(e.x, e.y, Whole(p[1]), Whole(p[2]))

\* One bar per cell that received an accepted pair, each with a count of
\* at least 1, and no bar for any other cell.
OneBarPerFilledCell(bars) ==
    /\ \A p \in AcceptedPairs :
          Cardinality({ i \in 1..Len(bars) : BarOfPair(bars[i], p) }) = 1
    /\ \A i \in 1..Len(bars) :
          /\ bars[i].count >= 1
          /\ \E p \in AcceptedPairs : BarOfPair(bars[i], p)

\* C25 as stated: one bar per cell that received an accepted pair, each
\* with a count of at least 1, no bar for any other cell, and exactly 3
\* bars after 3 different pairs were filled.
C25_PopulatedBins ==
    ret.op = "generate_bar_data" =>
        /\ OneBarPerFilledCell(ret.bars)
        /\ Cardinality(FilledPairs) = 3 => Len(ret.bars) = 3

\* C25 as amended: one bar per cell that received an accepted pair, each
\* with a count of at least 1, no bar for any other cell, and exactly 3
\* bars after 3 pairs were filled that are all accepted and lie in 3
\* different cells.
C25_PopulatedBinsAmended ==
    ret.op = "generate_bar_data" =>
        /\ OneBarPerFilledCell(ret.bars)
        /\ ( /\ Cardinality(FilledPairs) = 3
             /\ AcceptedPairs = FilledPairs
             /\ \A p, q \in FilledPairs :
                   p # q => ~SameCell(Whole(p[1]), Whole(p[2]),
                                      Whole(q[1]), Whole(q[2])) )
              => Len(ret.bars) = 3

\* Three accepted pairs in three cells of a histogram of 64 x 2 bins give
\* three bars.
C25_Witness ==
    /\ ret.op = "generate_bar_data"
    /\ hist2.x_bin_width.den = 64
    /\ Cardinality(FilledPairs) = 3
    /\ AcceptedPairs = FilledPairs
    /\ Len(ret.bars) = 3

(***************************************************************************)
(* Cut persistence: save_cut_to_json and load_cut_from_json                *)
(* (egui_polygon.rs).  The text of the file is the sequence of its JSON    *)
(* tokens; a number token holds its decimal digits and a string token its  *)
(* escaped characters.  In this part a String is the sequence of its       *)
(* characters, with "quote" and "backslash" standing for those two.        *)
(***************************************************************************)
Punct(c) == [ kind |-> "punct", text |-> c ]
Key(name) == [ kind |-> "key", text |-> name ]
Null == [ kind |-> "null", text |-> "null" ]
IsPunct(t, c) == t.kind = "punct" /\ t.text = c

\* The decimal digits of a natural number, most significant first.
RECURSIVE Digits(_)
Digits(n) == IF n < 10 THEN <<n>> ELSE Digits(n \div 10) \o <<n % 10>>

\* The natural number a sequence of decimal digits denotes.
RECURSIVE DigitsValue(_)
DigitsValue(d) ==
    IF d = << >> THEN 0
    ELSE 10 * DigitsValue(SubSeq(d, 1, Len(d) - 1)) + d[Len(d)]

\* The text serde_json writes for an f64 of integral value: sign, digits,
\* ".0".
FormatF64(v) ==
    [ kind |-> "number",
      text |-> [ negative |-> v < 0,
                 int      |-> Digits(IF v < 0 THEN -v ELSE v),
                 frac     |-> <<0>> ] ]

\* The text serde_json writes for a usize: its digits.
FormatUsize(n) ==
    [ kind |-> "number",
      text |-> [ negative |-> FALSE, int |-> Digits(n), frac |-> << >> ] ]

\* The f64 a number token is parsed to: the integer when the fraction is
\* zero, the quotient otherwise.
ParseF64(t) ==
    LET sign  == IF t.text.negative THEN -1 ELSE 1
        whole == DigitsValue(t.text.int)
        part  == DigitsValue(t.text.frac)
        scale == DigitsValue(<<1>> \o [ i \in 1..Len(t.text.frac) |-> 0 ])
    IN  IF part = 0 THEN sign * whole
        ELSE [ num |-> sign * (whole * scale + part), den |-> scale ]

\* The characters serde_json writes between the quotes for a string: a
\* quote and a backslash are preceded by a backslash.
RECURSIVE Escape(_)
Escape(chars) ==
    IF chars = << >> THEN << >>
    ELSE (IF chars[1] \in {"quote", "backslash"}
          THEN <<"backslash", chars[1]>> ELSE <<chars[1]>>)
         \o Escape(Tail(chars))

Err == [ ok |-> FALSE, value |-> None, next |-> 0 ]
Parsed(value, next) == [ ok |-> TRUE, value |-> value, next |-> next ]

\* The string the characters between the quotes are parsed to: the
\* character after a backslash is taken as it is; a backslash at the end
\* or a bare quote is an error.
RECURSIVE Unescape(_)
Unescape(body) ==
    IF body = << >> THEN Parsed(<< >>, 0)
    ELSE IF body[1] = "quote" THEN Err
    ELSE IF body[1] = "backslash"
         THEN IF Len(body) < 2 \/ body[2] \notin {"quote", "backslash"} THEN Err
              ELSE LET rest == Unescape(Tail(Tail(body)))
                   IN  IF rest.ok THEN Parsed(<<body[2]>> \o rest.value, 0)
                       ELSE Err
    ELSE LET rest == Unescape(Tail(body))
         IN  IF rest.ok THEN Parsed(<<body[1]>> \o rest.value, 0) ELSE Err

\* The text of Vec<[f64; 2]> from the vertex i on.
RECURSIVE VerticesText(_, _)
VerticesText(vertices, i) ==
    IF i > Len(vertices) THEN << >>
    ELSE (IF i > 1 THEN <<Punct(",")>> ELSE << >>)
         \o << Punct("["), FormatF64(vertices[i][1]), Punct(","),
               FormatF64(vertices[i][2]), Punct("]") >>
         \o VerticesText(vertices, i + 1)

\* The text of Option<String>.
OptionStringText(opt) ==
    IF opt = None THEN Null
    ELSE [ kind |-> "string", text |-> Escape(opt[1]) ]

\* The text of Option<usize>.
OptionUsizeText(opt) == IF opt = None THEN Null ELSE FormatUsize(opt[1])

\* serde_json::to_string(self) with the derived Serialize: the fields in
\* the order of the struct.
Serialize(poly) ==
    << Punct("{"), Key("vertices"), Punct(":"), Punct("[") >>
    \o VerticesText(poly.vertices, 1)
    \o << Punct("]"), Punct(","),
          Key("selected_vertex_index"), Punct(":"),
          OptionUsizeText(poly.selected_vertex_index), Punct(","),
          Key("selected_x_column"), Punct(":"),
          OptionStringText(poly.selected_x_column), Punct(","),
          Key("selected_y_column"), Punct(":"),
          OptionStringText(poly.selected_y_column), Punct("}") >>

\* The token i of a text, or an end-of-input token.
Tok(tokens, i) ==
    IF i <= Len(tokens) THEN tokens[i] ELSE [ kind |-> "eof", text |-> "" ]

\* Vec<[f64; 2]> parsed from the token i on, after the opening bracket;
\* acc holds the vertices parsed so far.
RECURSIVE ParseVertexList(_, _, _)
ParseVertexList(tokens, i, acc) ==
    IF acc = << >> /\ IsPunct(Tok(tokens, i), "]") THEN Parsed(acc, i + 1)
    ELSE IF /\ IsPunct(Tok(tokens, i), "[")
            /\ Tok(tokens, i + 1).kind = "number"
            /\ IsPunct(Tok(tokens, i + 2), ",")
            /\ Tok(tokens, i + 3).kind = "number"
            /\ IsPunct(Tok(tokens, i + 4), "]")
         THEN LET vertex == << ParseF64(Tok(tokens, i + 1)),
                               ParseF64(Tok(tokens, i + 3)) >>
                  after  == Tok(tokens, i + 5)
              IN  IF IsPunct(after, ",")
                  THEN ParseVertexList(tokens, i + 6, Append(acc, vertex))
                  ELSE IF IsPunct(after, "]")
                       THEN Parsed(Append(acc, vertex), i + 6)
                       ELSE Err
         ELSE Err

\* The value of one field parsed from the token i on.
ParseField(tokens, name, i) ==
    LET t == Tok(tokens, i)
    IN  IF name = "vertices"
        THEN IF IsPunct(t, "[") THEN ParseVertexList(tokens, i + 1, << >>)
             ELSE Err
        ELSE IF name = "selected_vertex_index"
        THEN IF t.kind = "null" THEN Parsed(None, i + 1)
             ELSE IF /\ t.kind = "number"
                     /\ ~t.text.negative
                     /\ t.text.frac = << >>
                  THEN Parsed(Some(DigitsValue(t.text.int)), i + 1)
                  ELSE Err
        ELSE IF name \in {"selected_x_column", "selected_y_column"}
        THEN IF t.kind = "null" THEN Parsed(None, i + 1)
             ELSE IF t.kind = "string"
                  THEN LET s == Unescape(t.text)
                       IN  IF s.ok THEN Parsed(Some(s.value), i + 1) ELSE Err
                  ELSE Err
        ELSE Err

\* The fields of the struct, none read yet.
NoFields ==
    [ name \in { "vertices", "selected_vertex_index", "selected_x_column",
                 "selected_y_column" } |-> None ]

\* The derived Deserialize: the fields of the object in any order, from
\* the token i on; acc holds Some(value) for the fields read so far.  A
\* missing Option field is None, a missing `vertices` is an error.  (The
\* files written by save_cut_to_json have no other key.)
RECURSIVE ParseFields(_, _, _)
ParseFields(tokens, i, acc) ==
    LET key == Tok(tokens, i)
    IN  IF key.kind # "key" \/ key.text \notin DOMAIN acc
           \/ ~IsPunct(Tok(tokens, i + 1), ":")
        THEN Err
        ELSE LET v == ParseField(tokens, key.text, i + 2)
             IN  IF ~v.ok \/ acc[key.text] # None THEN Err
                 ELSE LET acc2 == [acc EXCEPT ![key.text] = Some(v.value)]
                          sep  == Tok(tokens, v.next)
                      IN  IF IsPunct(sep, ",")
                          THEN ParseFields(tokens, v.next + 1, acc2)
                          ELSE IF IsPunct(sep, "}") /\ v.next = Len(tokens)
                               THEN Parsed(acc2, v.next + 1)
                               ELSE Err

\* serde_json::from_reader::<EditableEguiPolygon>
Deserialize(tokens) ==
    IF ~IsPunct(Tok(tokens, 1), "{") THEN Err
    ELSE LET f == ParseFields(tokens, 2, NoFields)
         IN  IF ~f.ok \/ f.value["vertices"] = None THEN Err
             ELSE Parsed(
                    [ vertices              |-> f.value["vertices"][1],
                      selected_vertex_index |->
                          UnwrapOr(f.value["selected_vertex_index"], None),
                      selected_x_column     |->
                          UnwrapOr(f.value["selected_x_column"], None),
                      selected_y_column     |->
                          UnwrapOr(f.value["selected_y_column"], None) ],
                    0)

\* *self = loaded_polygon, keeping the columns of self.
Replace_verticesOnly(poly, loaded_polygon) ==
    [poly EXCEPT !.vertices = loaded_polygon.vertices]

\* *self = loaded_polygon
Replace(poly, loaded_polygon) ==
    loaded_polygon

(***************************************************************************)
(* Specification of cut persistence: the active cut is saved to and loaded *)
(* from the file, and edited in between                                    *)
(***************************************************************************)
\* The polygons a session starts with: no vertex or five vertices, the
\* columns unselected, half selected, or both selected, with plain names
\* or names that hold a quote and a backslash.
JsonVertexLists ==
    { << >>,
      << <<0, 0>>, <<10, 0>>, <<12, 7>>, <<5, -3>>, <<Sentinel, 120>> >> }
JsonColumns ==
    { <<None, None>>,
      <<None, Some(<<"X", "2">>)>>,
      <<Some(<<"X", "1">>), Some(<<"X", "2">>)>>,
      <<Some(<<"E", "quote", "1">>), Some(<<"backslash", "n">>)>> }
JsonPolygons ==
    { [ vertices              |-> v,
        selected_vertex_index |-> None,
        selected_x_column     |-> xy[1],
        selected_y_column     |-> xy[2] ] :
      v \in JsonVertexLists, xy \in JsonColumns }

\* One active, drawn cut; no file yet, or the file an earlier session
\* saved one of the polygons to.
InitJson ==
    /\ \E poly \in JsonPolygons :
          cutter = [ cuts |-> MapInsert(<< >>, CutId(1), poly),
                     active_cut_id |-> Some(CutId(1)),
                     draw_flag |-> TRUE ]
    /\ \/ cut_file = None /\ saved = None
       \/ \E poly \in JsonPolygons :
             cut_file = Some(Serialize(poly)) /\ saved = Some(poly)
    /\ removed = {}
    /\ frame = IdleFrame
    /\ hist = IdleHist
    /\ filled = << >>
    /\ hist2 = IdleHist2
    /\ histogrammer = IdleHistogrammer
    /\ app = IdleApp
    /\ last_load = None
    /\ ret = NoCall

\* save_cut_to_json on the active cut; `picked` tells whether the file
\* dialog returned a path.
SaveCutToJson(picked) ==
    /\ ActiveCutDrawn
    /\ LET poly == cutter.cuts[cutter.active_cut_id[1]]
       IN  IF picked
           THEN cut_file' = Some(Serialize(poly)) /\ saved' = Some(poly)
           ELSE UNCHANGED <<cut_file, saved>>
    /\ ret' = [ op |-> "save_cut_to_json", picked |-> picked, status |-> "ok",
                old |-> cutter ]
    /\ UNCHANGED <<cutter, removed, frame, hist, filled, hist2, histogrammer,
                   app, last_load>>

\* load_cut_from_json on the active cut; `picked` tells whether the file
\* dialog returned the path of the file.
LoadCutFromJson(picked) ==
    /\ ActiveCutDrawn
    /\ picked => cut_file # None
    /\ LET id     == cutter.active_cut_id[1]
           loaded == IF picked THEN Deserialize(cut_file[1]) ELSE Err
       IN  /\ cutter' = IF picked /\ loaded.ok
                        THEN [cutter EXCEPT !.cuts[id] = Replace(@, loaded.value)]
                        ELSE cutter
           /\ ret' = [ op |-> "load_cut_from_json", picked |-> picked,
                       status |-> IF picked /\ ~loaded.ok THEN "err" ELSE "ok",
                       old |-> cutter ]
    /\ UNCHANGED <<cut_file, saved, removed, frame, hist, filled, hist2,
                   histogrammer, app, last_load>>

NextJson ==
    \/ \E picked \in BOOLEAN : SaveCutToJson(picked)
    \/ \E picked \in BOOLEAN : LoadCutFromJson(picked)
    \/ \E pointer_pos \in { <<0, 0>>, <<2, 0>> } : Clicked(pointer_pos)
    \/ MiddleClicked

SpecJson == InitJson /\ [][NextJson]_vars

\* The polygon of the cut after the last action.
LoadedPolygon == cutter.cuts[CutId(1)]

\* C26: after a load from the file, the polygon is the polygon that was
\* serialized into the file: the same vertices in the same order, the same
\* column names, and nothing left of the polygon it replaced.
C26_PersistenceRoundTrip ==
    ret.op = "load_cut_from_json" /\ ret.picked =>
        /\ ret.status = "ok"
        /\ LoadedPolygon.vertices = saved[1].vertices
        /\ LoadedPolygon.selected_x_column = saved[1].selected_x_column
        /\ LoadedPolygon.selected_y_column = saved[1].selected_y_column
        /\ LoadedPolygon = saved[1]

\* A polygon with five vertices and both columns selected, a quote in the
\* name of one, is loaded over a polygon with other vertices and other
\* columns.
C26_Witness ==
    /\ ret.op = "load_cut_from_json" /\ ret.picked
    /\ Len(LoadedPolygon.vertices) = 5
    /\ LoadedPolygon.selected_x_column = Some(<<"E", "quote", "1">>)
    /\ LoadedPolygon.selected_y_column # None
    /\ ret.old.cuts[CutId(1)].vertices # LoadedPolygon.vertices
    /\ ret.old.cuts[CutId(1)].vertices # << >>
    /\ ret.old.cuts[CutId(1)].selected_x_column # LoadedPolygon.selected_x_column

(***************************************************************************)
(* Properties of add_new_cut and of the active cut over sequences of the   *)
(* "New" button, the "Remove Active Cut" button and the chooser            *)
(***************************************************************************)
\* C28: add_new_cut makes the set one cut larger and leaves the vertices
\* and the selected columns of every cut that was in the set as they were.
C28_AddCutKeepsExisting ==
    ret.op = "add_new_cut" =>
        /\ Cardinality(DOMAIN cutter.cuts) = Cardinality(DOMAIN ret.old.cuts) + 1
        /\ \A id \in DOMAIN ret.old.cuts :
              /\ id \in DOMAIN cutter.cuts
              /\ cutter.cuts[id].vertices = ret.old.cuts[id].vertices
              /\ cutter.cuts[id].selected_x_column
                     = ret.old.cuts[id].selected_x_column
              /\ cutter.cuts[id].selected_y_column
                     = ret.old.cuts[id].selected_y_column

\* C30: the active cut id is None or the id of a cut in the set.
C30_ActiveCutExists ==
    \/ cutter.active_cut_id = None
    \/ cutter.active_cut_id[1] \in DOMAIN cutter.cuts

\* After a removal, a cut that stayed in the set is chosen in the chooser
\* and is the active cut.
C30_Witness ==
    /\ ret.op = "select"
    /\ removed # {}
    /\ ret.choice # None
    /\ cutter.active_cut_id = ret.choice
    /\ ret.choice[1] \in DOMAIN cutter.cuts
    /\ ret.old.active_cut_id = None

(***************************************************************************)
(* Property of Histogram::get_bin as an index of the bin vector            *)
(***************************************************************************)
\* C29: on a histogram with at least one bin, an index get_bin returns is
\* smaller than the number of bins.
C29_GetBinValidIndex ==
    (ret.op = "get_bin" /\ Len(hist.bins) >= 1 /\ ret.result # None) =>
        ret.result[1] < Len(hist.bins)

=============================================================================
